---- MODULE Spec2Model ----
(***************************************************************************)
(* Options-strategy screener of ShashankBhutiya/Hegdmax.                    *)
(*                                                                         *)
(* The engine (OptionPosition / OptionStrategy) exists in three copies:     *)
(*   "ts"     src/src/utils/optionCalculations.ts                           *)
(*   "module" src/optionStrategy.js                                         *)
(*   "script" src/script.js                                                 *)
(* and the combination generator in two: ExcelProcessor.analyzeMatrix       *)
(* ("ts") and the convertBtn click handler of script.js ("script").         *)
(*                                                                         *)
(* Numbers.  Money is counted in cents.  A price on a sampling grid is the  *)
(* exact rational w + f/den, kept as the pair <<w, f>> with 0 <= f < den,   *)
(* so that every comparison the code makes on payoffs is decided exactly.   *)
(* Probabilities and the other real-valued quantities of the lognormal      *)
(* model are fixed-point numbers with FP units to 1.                        *)
(***************************************************************************)
EXTENDS Integers, Sequences, FiniteSets, TLC

VARIABLES
  positions,        \* the constructor arguments of the legs of a strategy
  ret,              \* the call made on the strategy built and what it returned
  impl,             \* the Combination Generator that runs: "script" or "ts"
  internalMatrix,   \* the transposed chain table (transposedMatrix in ts)
  phase,            \* "idle", "enumerating" or "done"
  cursor,           \* <<i, j, k, l>> of the iteration about to run
  tried,            \* the tuples whose iteration has run, in order
  readCells,        \* the <<row, index>> of every cell read by the loops
  riskRewardRatios, \* the array of records (strategies in ts)
  pushed,           \* the records in the order in which they were pushed
  errors,           \* console.error lines (script), errors array (ts)
  output,           \* the CSV content (script), the returned result (ts)
  csvContent,       \* the CSV made of the returned result on request (ts)
  runs,             \* how many runs have been started
  previous,         \* output and number of skipped tuples of the run before
  store,            \* the state of useAuthStore
  calls,            \* the calls made of the actions of the store
  isDragging,       \* useState cells of ExcelUpload
  isProcessing,
  progress,
  uploadError,      \* the cell error of ExcelUpload
  uploads,          \* the calls of handleFileUpload that passed the name check
  completed         \* the uploads handed to onUploadComplete, in order

engineVars == <<positions, ret>>

enumVars == <<impl, internalMatrix, phase, cursor, tried, readCells,
             riskRewardRatios, pushed, errors, output, csvContent, runs,
             previous>>

authVars == <<store, calls>>

uploadVars == <<isDragging, isProcessing, progress, uploadError, uploads,
               completed>>

pageVars == <<authVars, uploadVars>>

vars == <<engineVars, enumVars, pageVars>>

(***************************************************************************)
(* Exact arithmetic on <<w, f>> = w + f/den                                 *)
(***************************************************************************)
Zero == <<0, 0>>

Whole(n) == <<n, 0>>

NumNorm(w, f, den) == <<w + (f \div den), f % den>>

NumAdd(a, b, den) == NumNorm(a[1] + b[1], a[2] + b[2], den)

NumSub(a, b, den) == NumNorm(a[1] - b[1], a[2] - b[2], den)

\* a - n for a whole number n
NumLess(a, n) == <<a[1] - n, a[2]>>

NumNeg(a, den) == IF a[2] = 0 THEN <<-a[1], 0>> ELSE <<-a[1] - 1, den - a[2]>>

NumScale(q, a, den) == IF q = 1 THEN a ELSE NumNorm(q * a[1], q * a[2], den)

NumLt(a, b) == a[1] < b[1] \/ (a[1] = b[1] /\ a[2] < b[2])

NumGt(a, b) == NumLt(b, a)

NumMax(a, b) == IF NumLt(a, b) THEN b ELSE a

NumMin(a, b) == IF NumLt(b, a) THEN b ELSE a

NumAbs(a, den) == IF a[1] < 0 THEN NumNeg(a, den) ELSE a

\* the integer n * den of an exact number
Scaled(a, den) == a[1] * den + a[2]

(***************************************************************************)
(* OptionPosition.payoff.  payoffThrows is the error payoff throws on the   *)
(* position (none on a valid one: the kind is tested before the action),    *)
(* payoff the number it returns otherwise.  S_T is an exact price over den, *)
(* strike and premium are whole cents.                                      *)
(***************************************************************************)
\* new OptionPosition(optionType, action, strike, premium, quantity)
OptionPosition(optionType, action, strike, premium, quantity) ==
  [optionType |-> optionType, action |-> action, strike |-> strike,
   premium |-> premium, quantity |-> quantity]

NoError == "none"

InvalidKind == "optionType must be 'call' or 'put'"

InvalidAction == "action must be 'buy' or 'sell'"

\* the text of the invalid-kind error in script.js and optionStrategy.js
InvalidKindJs == "option_type must be 'call' or 'put'"

\* String.prototype.toLowerCase on the strings handed to the constructors
toLowerCase(str) ==
  IF str = "CALL" THEN "call"
  ELSE IF str = "Buy" THEN "buy"
  ELSE str

\* the object a copy's constructor makes of its arguments: script.js and
\* optionStrategy.js lower the case of optionType and action, the
\* TypeScript constructor stores them as given; no copy tests them
constructPosition(copy, args) ==
  IF copy = "ts" THEN args
  ELSE [args EXCEPT !.optionType = toLowerCase(@), !.action = toLowerCase(@)]

\* new OptionStrategy(legs built of the arguments in argsSeq)
construct(copy, argsSeq) ==
  [k \in 1..Len(argsSeq) |-> constructPosition(copy, argsSeq[k])]

\* the error as the copy words it
errorText(copy, error) ==
  IF error = InvalidKind /\ copy # "ts" THEN InvalidKindJs ELSE error

\* payoff with the test of the action left out
payoffThrowsKindOnly(p) ==
  IF p.optionType # "call" /\ p.optionType # "put" THEN InvalidKind
  ELSE NoError

payoffThrows(p) ==
  IF p.optionType # "call" /\ p.optionType # "put" THEN InvalidKind
  ELSE IF p.action # "buy" /\ p.action # "sell" THEN InvalidAction
  ELSE NoError

\* Math.max(S_T - strike, 0) for a call, Math.max(strike - S_T, 0) for a put
intrinsicOf(p, S_T, den) ==
  IF p.optionType = "call"
    THEN NumMax(NumLess(S_T, p.strike), Zero)
  ELSE NumMax(NumNeg(NumLess(S_T, p.strike), den), Zero)

\* payoff with the action ignored: every leg valued as bought
payoffAsBought(p, S_T, den) ==
  NumScale(p.quantity, NumLess(intrinsicOf(p, S_T, den), p.premium), den)

payoff(p, S_T, den) ==
  LET intrinsic == intrinsicOf(p, S_T, den)
  IN IF p.action = "buy"
       THEN NumScale(p.quantity, NumLess(intrinsic, p.premium), den)
     ELSE NumScale(p.quantity, NumNeg(NumLess(intrinsic, p.premium), den), den)

(***************************************************************************)
(* OptionStrategy.netPayoff: the sum over the legs, in order; the first     *)
(* throwing leg ends it.                                                    *)
(***************************************************************************)
RECURSIVE netPayoffThrowsFrom(_, _)
netPayoffThrowsFrom(ps, k) ==
  IF k > Len(ps) THEN NoError
  ELSE IF payoffThrows(ps[k]) # NoError THEN payoffThrows(ps[k])
  ELSE netPayoffThrowsFrom(ps, k + 1)

netPayoffThrows(ps) == netPayoffThrowsFrom(ps, 1)

\* one component (1: whole part, 2: numerator) of the sum that reduce forms
\* over the legs k..Len(ps), starting from 0
RECURSIVE netPayoffFrom(_, _, _, _, _)
netPayoffFrom(ps, k, part, S_T, den) ==
  IF k > Len(ps) THEN 0
  ELSE payoff(ps[k], S_T, den)[part] + netPayoffFrom(ps, k + 1, part, S_T, den)

\* netPayoff with the first leg left out of the sum
netPayoffSkippingFirst(ps, S_T, den) ==
  NumNorm(netPayoffFrom(ps, 2, 1, S_T, den), netPayoffFrom(ps, 2, 2, S_T, den), den)

\* this.positions.reduce((total, position) => total + position.payoff(S_T), 0)
netPayoff(ps, S_T, den) ==
  NumNorm(netPayoffFrom(ps, 1, 1, S_T, den), netPayoffFrom(ps, 1, 2, S_T, den), den)

(***************************************************************************)
(* The sampling grid of probabilityOfProfit and riskRewardRatio:            *)
(*   S_vals[i] = S_min + (S_max - S_min) * i / 999,  i = 0..999             *)
(* with S_min = 0.01 (one cent) and S_max = 2 * S0.                         *)
(***************************************************************************)
NumSamples == 1000

S_min == 1

GridDen == NumSamples - 1

S_max(S0) == S0 * 2

S_vals(S0, i) ==
  LET D == S_max(S0) - S_min
  IN NumNorm(S_min + (D \div GridDen) * i, (D % GridDen) * i, GridDen)

\* payoffs = S_vals.map(S => this.netPayoff(S)), entry i + 1 for sample i
RECURSIVE payoffsRange(_, _, _, _)
payoffsRange(ps, S0, lo, hi) ==
  IF lo = hi THEN <<netPayoff(ps, S_vals(S0, lo), GridDen)>>
  ELSE LET mid == (lo + hi) \div 2
       IN payoffsRange(ps, S0, lo, mid) \o payoffsRange(ps, S0, mid + 1, hi)

\* the map as both methods start with it: it throws what the first call of
\* netPayoff throws
sampledPayoffs(ps, S0) ==
  IF netPayoffThrows(ps) # NoError
    THEN [thrown |-> netPayoffThrows(ps), payoffs |-> <<>>]
  ELSE [thrown |-> NoError, payoffs |-> payoffsRange(ps, S0, 0, NumSamples - 1)]

RECURSIVE MathMax(_, _, _)
MathMax(xs, lo, hi) ==
  IF lo = hi THEN xs[lo]
  ELSE LET mid == (lo + hi) \div 2
       IN NumMax(MathMax(xs, lo, mid), MathMax(xs, mid + 1, hi))

RECURSIVE MathMin(_, _, _)
MathMin(xs, lo, hi) ==
  IF lo = hi THEN xs[lo]
  ELSE LET mid == (lo + hi) \div 2
       IN NumMin(MathMin(xs, lo, mid), MathMin(xs, mid + 1, hi))

(***************************************************************************)
(* JavaScript numbers that a division can produce: a finite ratio n/d of    *)
(* two exact magnitudes with a sign, +Infinity, -Infinity or NaN.           *)
(***************************************************************************)
JsZero == [kind |-> "finite", neg |-> FALSE, n |-> Zero, d |-> Whole(1)]

JsInfinity == [kind |-> "Infinity", neg |-> FALSE, n |-> Zero, d |-> Zero]

JsNegInfinity == [kind |-> "Infinity", neg |-> TRUE, n |-> Zero, d |-> Zero]

JsNaN == [kind |-> "NaN", neg |-> FALSE, n |-> Zero, d |-> Zero]

\* a / b on exact numbers, as IEEE division decides the special cases
JsDivide(a, b, den) ==
  IF b = Zero
    THEN IF a = Zero THEN JsNaN
         ELSE IF NumLt(a, Zero) THEN JsNegInfinity ELSE JsInfinity
  ELSE [kind |-> "finite",
        neg  |-> (a # Zero) /\ (NumLt(a, Zero) # NumLt(b, Zero)),
        n    |-> NumAbs(a, den),
        d    |-> NumAbs(b, den)]

MathAbs(x) == [x EXCEPT !.neg = FALSE]

(***************************************************************************)
(* OptionStrategy.riskRewardRatio, per copy of the engine                   *)
(***************************************************************************)
Engines == {"ts", "module", "script"}

\* the ratio after the maxProfit === 0 branch did not return
riskRewardDivision(copy, maxProfit, maxLoss) ==
  IF copy = "script"
    THEN JsDivide(NumAbs(maxLoss, GridDen), maxProfit, GridDen)
  ELSE MathAbs(JsDivide(maxProfit, maxLoss, GridDen))

\* riskRewardRatio without the maxProfit === 0 branch
riskRewardRatioUnguarded(copy, sp) ==
  IF sp.thrown # NoError THEN [thrown |-> sp.thrown]
  ELSE
    LET maxProfit == MathMax(sp.payoffs, 1, NumSamples)
        maxLoss   == MathMin(sp.payoffs, 1, NumSamples)
    IN [thrown |-> NoError, maxProfit |-> maxProfit, maxLoss |-> maxLoss,
        branch |-> "division",
        value |-> riskRewardDivision(copy, maxProfit, maxLoss)]

\* riskRewardRatio from the sampled payoffs sp
riskRewardRatio(copy, sp) ==
  IF sp.thrown # NoError THEN [thrown |-> sp.thrown]
  ELSE
    LET maxProfit == MathMax(sp.payoffs, 1, NumSamples)
        maxLoss   == MathMin(sp.payoffs, 1, NumSamples)
    IN IF maxProfit = Zero
         THEN [thrown |-> NoError, maxProfit |-> maxProfit, maxLoss |-> maxLoss,
               branch |-> "explicit",
               value |-> IF NumLt(maxLoss, Zero) THEN JsInfinity ELSE JsZero]
       ELSE [thrown |-> NoError, maxProfit |-> maxProfit, maxLoss |-> maxLoss,
             branch |-> "division",
             value |-> riskRewardDivision(copy, maxProfit, maxLoss)]

(***************************************************************************)
(* Fixed-point reals: the integer x stands for x / FP.  Products and        *)
(* quotients are formed by long multiplication and long division so that    *)
(* no intermediate exceeds the 32-bit integers of the model checker.  The   *)
(* results agree with IEEE doubles to a few units of 1/FP on the arguments   *)
(* the engine forms.                                                        *)
(***************************************************************************)
FP == 1000 * 1000

FPRoot == FP \div 1000

Sgn(x) == IF x < 0 THEN -1 ELSE 1

Abs(x) == IF x < 0 THEN -x ELSE x

\* a * b
FMul(a, b) ==
  LET A == Abs(a)
      B == Abs(b)
      ah == A \div FPRoot
      al == A % FPRoot
      bh == B \div FPRoot
      bl == B % FPRoot
  IN Sgn(a) * Sgn(b) *
       (ah * bh + ((ah * bl + al * bh) \div FPRoot) + ((al * bl) \div FP))

\* the first n decimal digits of r / b, for 0 <= r < b
RECURSIVE FracDigits(_, _, _)
FracDigits(r, b, n) ==
  IF n = 0 THEN 0
  ELSE LET t == r * 10
       IN (t \div b) * (10 ^ (n - 1)) + FracDigits(t % b, b, n - 1)

\* |quotients| at or beyond FSat saturate: every use is the argument of a
\* function that is constant, to 1/FP, beyond 6
FSat == 2 * 1000

\* FP * a / b for integers a >= 0 and b > 0: the real a / b
RECURSIVE Ratio(_, _)
Ratio(a, b) ==
  IF b > 200 * FP THEN Ratio(a \div 10, b \div 10)
  ELSE IF a \div b >= FSat THEN FSat * FP
  ELSE (a \div b) * FP + FracDigits(a % b, b, 6)

\* a / b
FDiv(a, b) == Sgn(a) * Sgn(b) * Ratio(Abs(a), Abs(b))

\* Math.sqrt by Newton's iteration
RECURSIVE SqrtIter(_, _, _)
SqrtIter(a, x, n) ==
  IF n = 0 \/ x = 0 THEN x
  ELSE LET y == (x + Ratio(a, x)) \div 2
       IN IF y = x THEN x ELSE SqrtIter(a, y, n - 1)

MathSqrt(a) == IF a = 0 THEN 0 ELSE SqrtIter(a, IF a < FP THEN FP ELSE a, 40)

LN2 == 693147

\* y * 2^(-k) in [1, 2): <<mantissa, k>>
RECURSIVE LogReduce(_, _)
LogReduce(y, k) ==
  IF y >= 2 * FP THEN LogReduce(y \div 2, k + 1)
  ELSE IF y < FP THEN LogReduce(y * 2, k - 1)
  ELSE <<y, k>>

\* Math.log: ln(m * 2^k) = k ln 2 + 2 atanh((m - 1) / (m + 1)).  An argument
\* below 1/FP is a number whose logarithm lies below every value that matters.
MathLog(y) ==
  IF y <= 0 THEN -20 * FP
  ELSE LET mk == LogReduce(y, 0)
           s  == Ratio(mk[1] - FP, mk[1] + FP)
           s2 == FMul(s, s)
           h4 == FP \div 9
           h3 == FMul(h4, s2) + FP \div 7
           h2 == FMul(h3, s2) + FP \div 5
           h1 == FMul(h2, s2) + FP \div 3
           h0 == FMul(h1, s2) + FP
       IN mk[2] * LN2 + 2 * FMul(h0, s)

\* exp(-k) for k = 0 .. 13
ExpNegInt ==
  <<1000000, 367879, 135335, 49787, 18316, 6738, 2479, 912, 335, 123, 45, 17, 6, 2>>

\* exp(-f) for 0 <= f < 1 by its Taylor polynomial, Horner form
RECURSIVE ExpNegFrac(_, _)
ExpNegFrac(f, n) ==
  IF n > 12 THEN FP
  ELSE FP - FMul(f, ExpNegFrac(f, n + 1)) \div n

\* Math.exp(-u) for u >= 0
MathExpNeg(u) ==
  IF u >= 14 * FP THEN 0
  ELSE FMul(ExpNegInt[(u \div FP) + 1], ExpNegFrac(u % FP, 1))


(***************************************************************************)
(* The probability model: cumulativeNormalDistribution (Abramowitz-Stegun), *)
(* the z-score of a boundary price and the lognormal density.  T, r and     *)
(* sigma are fixed-point reals, S0 is in cents.                             *)
(***************************************************************************)
cumulativeNormalDistribution(x0) ==
  LET a1 == 254830
      a2 == -284497
      a3 == 1421414
      a4 == -1453152
      a5 == 1061405
      p  == 327591
      sign == IF x0 < 0 THEN -1 ELSE 1
      x  == FDiv(Abs(x0), MathSqrt(2 * FP))
      t  == FDiv(FP, FP + FMul(p, x))
      \* Math.exp(-x * x), which is below 1/FP from x = 4 on
      e  == IF x >= 4 * FP THEN 0 ELSE MathExpNeg(FMul(x, x))
      poly == FMul(FMul(FMul(FMul(FMul(a5, t) + a4, t) + a3, t) + a2, t) + a1, t)
      y  == FP - FMul(poly, e)
  IN (FP + sign * y) \div 2

\* (r - 0.5 * sigma ** 2) * T
Drift(T, r, sigma) == FMul(r - FMul(sigma, sigma) \div 2, T)

\* sigma * Math.sqrt(T)
StdDev(T, sigma) == FMul(sigma, MathSqrt(T))

\* S / S0 for the exact price S = <<w, f>> over den
PriceRatio(S, den, S0) == Ratio(S[1], S0) + (Ratio(S[2], den) \div S0)

\* (Math.log(S / S0) - (r - 0.5 * sigma ** 2) * T) / (sigma * Math.sqrt(T))
zScore(S, den, S0, T, r, sigma) ==
  FDiv(MathLog(PriceRatio(S, den, S0)) - Drift(T, r, sigma), StdDev(T, sigma))

TwoPi == 6283185

\* pdf_S_T, per unit of price (100 cents)
pdf_S_T(S, den, S0, T, r, sigma) ==
  LET d  == zScore(S, den, S0, T, r, sigma)
      \* Math.exp(-d * d / 2), which is below 1/FP from |d| = 6 on
      e  == IF Abs(d) >= 6 * FP THEN 0 ELSE MathExpNeg(FMul(d, d) \div 2)
      c  == FMul(sigma, MathSqrt(FMul(TwoPi, T)))
      ec == Ratio(e, c)
  IN (ec \div S[1]) * 100 + ((ec % S[1]) * 100) \div S[1]

(***************************************************************************)
(* numericalIntegration(S_min, S_max, 1000): the composite trapezoidal rule *)
(* over x = a + i * h, h = (b - a) / n.                                     *)
(***************************************************************************)
IntegrationSteps == 1000

IntX(S0, i) ==
  LET D == S_max(S0) - S_min
  IN NumNorm(S_min + (D \div IntegrationSteps) * i, (D % IntegrationSteps) * i,
             IntegrationSteps)

\* payoffPositive(x) * pdf_S_T(x)
Integrand(ps, i, S0, T, r, sigma) ==
  IF NumGt(netPayoff(ps, IntX(S0, i), IntegrationSteps), Zero)
    THEN pdf_S_T(IntX(S0, i), IntegrationSteps, S0, T, r, sigma)
  ELSE 0

RECURSIVE IntegrandSum(_, _, _, _, _, _, _)
IntegrandSum(ps, lo, hi, S0, T, r, sigma) ==
  IF lo > hi THEN 0
  ELSE IF lo = hi THEN Integrand(ps, lo, S0, T, r, sigma)
  ELSE LET mid == (lo + hi) \div 2
       IN IntegrandSum(ps, lo, mid, S0, T, r, sigma)
            + IntegrandSum(ps, mid + 1, hi, S0, T, r, sigma)

numericalIntegration(ps, S0, T, r, sigma) ==
  LET n   == IntegrationSteps
      h   == Ratio(S_max(S0) - S_min, n * 100)
      sum == (Integrand(ps, 0, S0, T, r, sigma)
                + Integrand(ps, n, S0, T, r, sigma)) \div 2
             + IntegrandSum(ps, 1, n - 1, S0, T, r, sigma)
  IN FMul(sum, h)

(***************************************************************************)
(* OptionStrategy.probabilityOfProfit                                       *)
(***************************************************************************)
\* positiveMask[i], sample i = 0..999
Positive(payoffs, i) == NumGt(payoffs[i + 1], Zero)

RECURSIVE SomePositive(_, _, _)
SomePositive(payoffs, lo, hi) ==
  IF lo = hi THEN Positive(payoffs, lo)
  ELSE LET mid == (lo + hi) \div 2
       IN SomePositive(payoffs, lo, mid) \/ SomePositive(payoffs, mid + 1, hi)

\* positiveMask.every weakened to the first and last sample only
EveryPositiveAtEnds(payoffs, lo, hi) ==
  NumGt(payoffs[lo + 1], Zero) /\ NumGt(payoffs[hi + 1], Zero)

RECURSIVE EveryPositive(_, _, _)
EveryPositive(payoffs, lo, hi) ==
  IF lo = hi THEN Positive(payoffs, lo)
  ELSE LET mid == (lo + hi) \div 2
       IN EveryPositive(payoffs, lo, mid) /\ EveryPositive(payoffs, mid + 1, hi)

\* how many entries of positiveMask are true
RECURSIVE CountPositive(_, _, _)
CountPositive(payoffs, lo, hi) ==
  IF lo = hi THEN IF Positive(payoffs, lo) THEN 1 ELSE 0
  ELSE LET mid == (lo + hi) \div 2
       IN CountPositive(payoffs, lo, mid) + CountPositive(payoffs, mid + 1, hi)

\* the filter predicate without its test i > 0: positiveMask[-1] is
\* undefined, which differs from either truth value
IsBreakFromZero(payoffs, i) ==
  i = 0 \/ Positive(payoffs, i) # Positive(payoffs, i - 1)

\* the filter predicate of breakPoints
IsBreak(payoffs, i) == i > 0 /\ Positive(payoffs, i) # Positive(payoffs, i - 1)

\* the samples i in lo..hi that the filter keeps, ascending
RECURSIVE breakPointsIn(_, _, _)
breakPointsIn(payoffs, lo, hi) ==
  IF lo = hi THEN IF IsBreak(payoffs, lo) THEN <<lo>> ELSE <<>>
  ELSE LET mid == (lo + hi) \div 2
       IN breakPointsIn(payoffs, lo, mid) \o breakPointsIn(payoffs, mid + 1, hi)

\* probabilityOfProfit with the test of payoffs[0] left out of the branch of
\* one boundary
probabilityOfProfitAbove(ps, sp, S0, T, r, sigma) ==
  IF sp.thrown # NoError THEN [thrown |-> sp.thrown]
  ELSE
    LET payoffs == sp.payoffs
        last == NumSamples - 1
        breakPoints == breakPointsIn(payoffs, 0, last)
        z(k) == zScore(S_vals(S0, breakPoints[k]), GridDen, S0, T, r, sigma)
        out(b, bps, v) ==
          [thrown |-> NoError, branch |-> b, breakPoints |-> bps,
           positives |-> CountPositive(payoffs, 0, last),
           flips |-> Len(breakPoints),
           lowPositive |-> Positive(payoffs, 0), value |-> v]
    IN IF ~SomePositive(payoffs, 0, last) THEN out("none", <<>>, 0)
       ELSE IF EveryPositive(payoffs, 0, last) THEN out("all", <<>>, FP)
       ELSE IF Len(breakPoints) = 1
         THEN out("one", breakPoints, FP - cumulativeNormalDistribution(z(1)))
       ELSE IF Len(breakPoints) = 2
         THEN out("two", breakPoints,
                  cumulativeNormalDistribution(z(2)) - cumulativeNormalDistribution(z(1)))
       ELSE out("integration", breakPoints, numericalIntegration(ps, S0, T, r, sigma))

\* probabilityOfProfit with the closed form of two boundaries taken for two
\* or more
probabilityOfProfitTwoOrMore(ps, sp, S0, T, r, sigma) ==
  IF sp.thrown # NoError THEN [thrown |-> sp.thrown]
  ELSE
    LET payoffs == sp.payoffs
        last == NumSamples - 1
        breakPoints == breakPointsIn(payoffs, 0, last)
        z(k) == zScore(S_vals(S0, breakPoints[k]), GridDen, S0, T, r, sigma)
        out(b, bps, v) ==
          [thrown |-> NoError, branch |-> b, breakPoints |-> bps,
           positives |-> CountPositive(payoffs, 0, last),
           flips |-> Len(breakPoints),
           lowPositive |-> Positive(payoffs, 0), value |-> v]
    IN IF ~SomePositive(payoffs, 0, last) THEN out("none", <<>>, 0)
       ELSE IF EveryPositive(payoffs, 0, last) THEN out("all", <<>>, FP)
       ELSE IF Len(breakPoints) = 1
         THEN IF Positive(payoffs, 0)
                THEN out("one", breakPoints, cumulativeNormalDistribution(z(1)))
              ELSE out("one", breakPoints, FP - cumulativeNormalDistribution(z(1)))
       ELSE IF Len(breakPoints) >= 2
         THEN out("two", breakPoints,
                  cumulativeNormalDistribution(z(2)) - cumulativeNormalDistribution(z(1)))
       ELSE out("integration", breakPoints, numericalIntegration(ps, S0, T, r, sigma))

\* probabilityOfProfit from the sampled payoffs sp
probabilityOfProfit(ps, sp, S0, T, r, sigma) ==
  IF sp.thrown # NoError THEN [thrown |-> sp.thrown]
  ELSE
    LET payoffs == sp.payoffs
        last == NumSamples - 1
        breakPoints == breakPointsIn(payoffs, 0, last)
        z(k) == zScore(S_vals(S0, breakPoints[k]), GridDen, S0, T, r, sigma)
        out(b, bps, v) ==
          [thrown |-> NoError, branch |-> b, breakPoints |-> bps,
           positives |-> CountPositive(payoffs, 0, last),
           flips |-> Len(breakPoints),
           lowPositive |-> Positive(payoffs, 0), value |-> v]
    IN IF ~SomePositive(payoffs, 0, last) THEN out("none", <<>>, 0)
       ELSE IF EveryPositive(payoffs, 0, last) THEN out("all", <<>>, FP)
       ELSE IF Len(breakPoints) = 1
         THEN IF Positive(payoffs, 0)
                THEN out("one", breakPoints, cumulativeNormalDistribution(z(1)))
              ELSE out("one", breakPoints, FP - cumulativeNormalDistribution(z(1)))
       ELSE IF Len(breakPoints) = 2
         THEN out("two", breakPoints,
                  cumulativeNormalDistribution(z(2)) - cumulativeNormalDistribution(z(1)))
       ELSE out("integration", breakPoints, numericalIntegration(ps, S0, T, r, sigma))

(***************************************************************************)
(* The chain table.  The sheet is a sequence of rows of cells; a cell is a  *)
(* number (in cents), a string (a sequence of characters) or undefined.     *)
(* Sequences are 1-based: the cell at JavaScript index x is entry x + 1.    *)
(***************************************************************************)
Undefined == [t |-> "undefined"]

NumberCell(v) == [t |-> "number", v |-> v]

StringCell(s) == [t |-> "string", s |-> s]

\* the results of parseFloat: NaN or a finite number, in cents
NaN == [nan |-> TRUE]

Finite(v) == [nan |-> FALSE, v |-> v]

DigitChars == <<"0", "1", "2", "3", "4", "5", "6", "7", "8", "9">>

IsDigit(c) == \E d \in 1..Len(DigitChars) : DigitChars[d] = c

DigitOf(c) == (CHOOSE d \in 1..Len(DigitChars) : DigitChars[d] = c) - 1

\* the first position at or after k that holds no blank
RECURSIVE SkipBlanks(_, _)
SkipBlanks(s, k) ==
  IF k <= Len(s) /\ s[k] = " " THEN SkipBlanks(s, k + 1) ELSE k

\* the length of the run of digits that starts at position k
RECURSIVE DigitRun(_, _)
DigitRun(s, k) ==
  IF k <= Len(s) /\ IsDigit(s[k]) THEN 1 + DigitRun(s, k + 1) ELSE 0

\* the decimal value of the n digits that start at position k
RECURSIVE DigitsValue(_, _, _)
DigitsValue(s, k, n) ==
  IF n = 0 THEN 0 ELSE DigitsValue(s, k, n - 1) * 10 + DigitOf(s[k + n - 1])

CentsPerUnit == 10 * 10

\* the value of the literal Infinity
Infinite(neg) == [nan |-> FALSE, inf |-> TRUE, neg |-> neg]

InfinityChars == <<"I", "n", "f", "i", "n", "i", "t", "y">>

\* parseFloat of a string, in units of 10^-places: blanks, a sign, then
\* Infinity or digits, a point, digits; whatever follows is ignored, and a
\* string with neither there is NaN.  Fraction digits beyond places are
\* dropped and the strings of the model hold no exponent.
parseFloatTo(s, places) ==
  LET k0 == SkipBlanks(s, 1)
      signed == k0 <= Len(s) /\ s[k0] \in {"+", "-"}
      k1 == IF signed THEN k0 + 1 ELSE k0
      ni == DigitRun(s, k1)
      dot == k1 + ni <= Len(s) /\ s[k1 + ni] = "."
      nf == IF dot THEN DigitRun(s, k1 + ni + 1) ELSE 0
      kept == IF nf < places THEN nf ELSE places
      whole == DigitsValue(s, k1, ni)
      frac == DigitsValue(s, k1 + ni + 1, kept) * (10 ^ (places - kept))
      magnitude == whole * (10 ^ places) + frac
      negative == signed /\ s[k0] = "-"
  IN IF ni = 0 /\ nf = 0
       THEN IF k1 + 7 <= Len(s) /\ SubSeq(s, k1, k1 + 7) = InfinityChars
              THEN Infinite(negative)
            ELSE NaN
     ELSE IF negative THEN Finite(-magnitude)
     ELSE Finite(magnitude)

\* parseFloat of the text of a chain cell, in cents
parseFloatString(s) == parseFloatTo(s, 2)

\* parseFloat(cell): the cell is converted to a string first, so a number
\* parses to itself and undefined ("undefined") to NaN
parseFloat(cell) ==
  IF cell.t = "number" THEN Finite(cell.v)
  ELSE IF cell.t = "string" THEN parseFloatString(cell.s)
  ELSE NaN

\* matrix[0].map((_, colIndex) => matrix.map(row => row[colIndex])); a row
\* shorter than the first leaves undefined cells
transposeMatrix(matrix) ==
  IF matrix = <<>> THEN <<>>
  ELSE [c \in 1..Len(matrix[1]) |->
          [r \in 1..Len(matrix) |->
             IF c <= Len(matrix[r]) THEN matrix[r][c] ELSE Undefined]]

\* M[row][idx]; an index beyond the row reads undefined
At(M, row, idx) ==
  IF idx + 1 \in DOMAIN M[row + 1] THEN M[row + 1][idx + 1] ELSE Undefined

\* the rows of the transposed table that the enumeration reads
CallRow == 5

StrikeRow == 6

PutRow == 7

START == 1

RowCap == 30

Min2(a, b) == IF a <= b THEN a ELSE b

\* Math.min(30, internalMatrix[0].length)
maxRowsOf(M) == IF M = <<>> THEN 0 ELSE Min2(RowCap, Len(M[1]))

(***************************************************************************)
(* The four nested loops                                                    *)
(*   for i = START; i < START + maxRows                                     *)
(*     for j = START; j + i < START + maxRows                               *)
(*       for k = START; k < START + maxRows                                 *)
(*         for l = START; l + k < START + maxRows                           *)
(* as a cursor <<i, j, k, l>> over the tuples whose body runs.              *)
(***************************************************************************)
NoTuple == <<>>

\* the first tuple if the offset j started at 0
FirstTupleFromZero(maxRows) ==
  IF START < START + maxRows THEN <<START, 0, START, START>> ELSE NoTuple

\* the first tuple whose body runs: the l loop of i = j = k = START is entered
FirstTuple(maxRows) ==
  IF START + START < START + maxRows THEN <<START, START, START, START>>
  ELSE NoTuple

\* the tuple after c if the four indices ran independently of each other
NextTupleIndependent(c, maxRows) ==
  LET lim == START + maxRows
  IN IF c[4] + 1 < lim THEN <<c[1], c[2], c[3], c[4] + 1>>
     ELSE IF c[3] + 1 < lim THEN <<c[1], c[2], c[3] + 1, START>>
     ELSE IF c[2] + 1 < lim THEN <<c[1], c[2] + 1, START, START>>
     ELSE IF c[1] + 1 < lim THEN <<c[1] + 1, START, START, START>>
     ELSE NoTuple

\* the tuple whose body runs after that of c
NextTuple(c, maxRows) ==
  LET i == c[1]
      j == c[2]
      k == c[3]
      l == c[4]
      lim == START + maxRows
  IN IF (l + 1) + k < lim THEN <<i, j, k, l + 1>>
     ELSE IF START + (k + 1) < lim THEN <<i, j, k + 1, START>>
     ELSE IF (j + 1) + i < lim THEN <<i, j + 1, START, START>>
     ELSE IF START + (i + 1) < lim THEN <<i + 1, START, START, START>>
     ELSE NoTuple

\* the number of times the body of the inner loop of
\*   for (a = START; a < START + maxRows; a++)
\*     for (b = START; b + a < START + maxRows; b++)
\* runs from b on within one round of the outer loop
RECURSIVE innerBodies(_, _, _)
innerBodies(a, b, maxRows) ==
  IF b + a < START + maxRows THEN 1 + innerBodies(a, b + 1, maxRows) ELSE 0

\* and from the round a of the outer loop on
RECURSIVE pairBodies(_, _)
pairBodies(a, maxRows) ==
  IF a < START + maxRows
    THEN innerBodies(a, START, maxRows) + pairBodies(a + 1, maxRows)
  ELSE 0

\* the number of tuples the four loops try: the loops of k and l run in
\* full inside every body of the loops of i and j
tuplesTried(maxRows) == pairBodies(START, maxRows) * pairBodies(START, maxRows)

\* const totalIterations = (maxRows - 1) ** 4
totalIterations(maxRows) == (maxRows - 1) ^ 4

\* new Uint8Array([i, j + i, k, l + k])
indicesOf(c) == <<c[1] % 256, (c[2] + c[1]) % 256, c[3] % 256, (c[4] + c[3]) % 256>>

\* the four price cells of a candidate, parsed
pricesOf(M, c) ==
  [callAsk |-> parseFloat(At(M, CallRow, c[1])),
   callBid |-> parseFloat(At(M, CallRow, c[2] + c[1])),
   putAsk  |-> parseFloat(At(M, PutRow, c[3])),
   putBid  |-> parseFloat(At(M, PutRow, c[4] + c[3]))]

\* the condition under which a candidate is kept, with the strike cells
\* required to parse as well
allNumericWithStrikes(M, c) ==
  /\ \A f \in {"callAsk", "callBid", "putAsk", "putBid"} : ~pricesOf(M, c)[f].nan
  /\ \A x \in {c[1], c[2] + c[1], c[3], c[4] + c[3]} :
       ~parseFloat(At(M, StrikeRow, x)).nan

\* !isNaN(callAsk) && !isNaN(callBid) && !isNaN(putAsk) && !isNaN(putBid)
allNumeric(M, c) ==
  LET p == pricesOf(M, c)
  IN ~p.callAsk.nan /\ ~p.callBid.nan /\ ~p.putAsk.nan /\ ~p.putBid.nan

\* a leg as the enumeration constructs it: the strike is what parseFloat
\* returned (it may be NaN), the premium a price that passed the check
Leg(optionType, action, strike, premium, quantity) ==
  [optionType |-> optionType, action |-> action, strike |-> strike,
   premium |-> premium, quantity |-> quantity]

\* the positions array of a kept candidate
positionsOf(M, c) ==
  LET p == pricesOf(M, c)
  IN << Leg("call", "sell", parseFloat(At(M, StrikeRow, c[1])), p.callBid.v, 1),
        Leg("call", "buy", parseFloat(At(M, StrikeRow, c[2] + c[1])), p.callAsk.v, 1),
        Leg("put", "sell", parseFloat(At(M, StrikeRow, c[3])), p.putBid.v, 1),
        Leg("put", "buy", parseFloat(At(M, StrikeRow, c[4] + c[3])), p.putAsk.v, 1) >>

\* the cells a candidate reads: the four prices, and the strikes if kept
cellsRead(M, c) ==
  {<<CallRow, c[1]>>, <<CallRow, c[2] + c[1]>>, <<PutRow, c[3]>>, <<PutRow, c[4] + c[3]>>}
  \cup (IF allNumeric(M, c)
          THEN {<<StrikeRow, x>> : x \in {c[1], c[2] + c[1], c[3], c[4] + c[3]}}
        ELSE {})

\* the market of the enumeration: S0 = 23559.15, T = 21 / 365, r = 0.01,
\* sigma = 0.122
Market_S0 == 2355915

T_days == 21

DaysPerYear == 365

Market_T == Ratio(T_days, DaysPerYear)

Market_r == FP \div 100

Market_sigma == (122 * FP) \div 1000

\* prob and riskReward of a kept candidate.  A NaN strike makes every
\* sampled payoff NaN: no sample is positive, so the probability is 0.0, and
\* the ratio is NaN in both copies.
\* the OptionPosition objects of legs whose strikes are numbers
enginePositions(legs) ==
  [n \in 1..Len(legs) |->
     OptionPosition(legs[n].optionType, legs[n].action,
                    legs[n].strike.v, legs[n].premium, legs[n].quantity)]

\* the payoff data of analyzeMatrix: priceRange[idx] = S0 * (0.5 + idx * 0.01)
\* for idx = 0..99, an exact number of cents over PayoffPoints
PayoffPoints == 100

priceRange(idx) == NumNorm(0, Market_S0 * (50 + idx), PayoffPoints)

\* payoffs = priceRange.map(price => optionStrategy.netPayoff(price))
payoffData(ps) ==
  [n \in 1..PayoffPoints |-> netPayoff(ps, priceRange(n - 1), PayoffPoints)]

\* the break-even price between the points i - 1 and i, in 1/100 of a cent:
\* prices[i-1] + (prices[i] - prices[i-1]) * |p0| / (|p0| + |p1|)
breakEvenAt(payoffs, i) ==
  LET p0 == Scaled(NumAbs(payoffs[i], PayoffPoints), PayoffPoints)
      p1 == Scaled(NumAbs(payoffs[i + 1], PayoffPoints), PayoffPoints)
  IN Market_S0 * (50 + i - 1) + FMul(Market_S0, Ratio(p0, p0 + p1))

\* findBreakEvenPoints(prices, payoffs) over the points lo..hi, ascending
RECURSIVE findBreakEvenPoints(_, _, _)
findBreakEvenPoints(payoffs, lo, hi) ==
  IF lo > hi THEN <<>>
  ELSE IF lo = hi
    THEN IF \/ ~NumGt(payoffs[lo], Zero) /\ NumGt(payoffs[lo + 1], Zero)
            \/ NumGt(payoffs[lo], Zero) /\ ~NumGt(payoffs[lo + 1], Zero)
           THEN <<breakEvenAt(payoffs, lo)>>
         ELSE <<>>
  ELSE LET mid == (lo + hi) \div 2
       IN findBreakEvenPoints(payoffs, lo, mid)
            \o findBreakEvenPoints(payoffs, mid + 1, hi)

\* maxProfit, maxLoss and breakEvenPoints of riskMetrics
riskMetricsOf(ps) ==
  CHOOSE rm \in
    { [maxProfit |-> Finite(MathMax(payoffs, 1, PayoffPoints)),
       maxLoss |-> Finite(MathMin(payoffs, 1, PayoffPoints)),
       breakEvenPoints |-> findBreakEvenPoints(payoffs, 1, PayoffPoints - 1)] :
      payoffs \in {payoffData(ps)} } : TRUE

\* prob and riskReward from the positions ps and their sampled payoffs sp;
\* analyzeMatrix adds the risk metrics of its payoff data
metricsFrom(copy, ps, sp) ==
  IF copy = "script"
    THEN [prob |-> probabilityOfProfit(ps, sp, Market_S0, Market_T, Market_r,
                                       Market_sigma).value,
          riskReward |-> riskRewardRatio(copy, sp).value]
  ELSE [prob |-> probabilityOfProfit(ps, sp, Market_S0, Market_T, Market_r,
                                     Market_sigma).value,
        riskReward |-> riskRewardRatio(copy, sp).value,
        riskMetrics |-> riskMetricsOf(ps)]

\* the metrics of a kept candidate.  A NaN strike makes every payoff NaN: no
\* sample is positive, so the probability is 0.0, the ratio is NaN in both
\* copies, Math.max and Math.min of the payoff data are NaN and no pair of
\* points passes the break-even test.
metricsOf(copy, legs) ==
  IF \E n \in 1..Len(legs) : legs[n].strike.nan
    THEN IF copy = "script" THEN [prob |-> 0, riskReward |-> JsNaN]
         ELSE [prob |-> 0, riskReward |-> JsNaN,
               riskMetrics |-> [maxProfit |-> NaN, maxLoss |-> NaN,
                                breakEvenPoints |-> <<>>]]
  ELSE metricsFrom(copy, enginePositions(legs),
                   sampledPayoffs(enginePositions(legs), Market_S0))

\* the record pushed for the tuple c with the legs and their metrics m; n
\* records were pushed before it.  script.js pushes {riskReward, prob,
\* indices} (positions is local to the iteration); excelProcessor.ts pushes
\* a strategy (id strategy-n, name Iron Condor i-(j+i)-k-(l+k)) and its
\* analysis.
entryOf(copy, c, n, legs, m) ==
  IF copy = "script"
    THEN [riskReward |-> m.riskReward, prob |-> m.prob,
          indices |-> indicesOf(c), positions |-> legs]
  ELSE [id |-> n, name |-> <<c[1], c[2] + c[1], c[3], c[4] + c[3]>>,
        indices |-> <<c[1], c[2] + c[1], c[3], c[4] + c[3]>>,
        positions |-> legs, riskReward |-> m.riskReward, prob |-> m.prob,
        riskMetrics |-> m.riskMetrics]

(***************************************************************************)
(* Ranking: Array.prototype.sort with the comparator                        *)
(*   (b, a) => a.riskReward - b.riskReward            (script.js)           *)
(*   (a, b) => b....riskRewardRatio - a....riskRewardRatio  (ts)            *)
(***************************************************************************)
\* a / b < c / d for integers a, c >= 0 and b, d > 0
RECURSIVE FracLess(_, _, _, _)
FracLess(a, b, c, d) ==
  IF a \div b # c \div d THEN a \div b < c \div d
  ELSE IF c % d = 0 THEN FALSE
  ELSE IF a % b = 0 THEN TRUE
  ELSE FracLess(d, c % d, b, a % b)

\* x < y for finite JavaScript numbers
FiniteLess(x, y) ==
  LET xn == Scaled(x.n, GridDen)
      xd == Scaled(x.d, GridDen)
      yn == Scaled(y.n, GridDen)
      yd == Scaled(y.d, GridDen)
  IN IF x.neg /\ ~y.neg THEN TRUE
     ELSE IF ~x.neg /\ y.neg THEN FALSE
     ELSE IF x.neg THEN FracLess(yn, yd, xn, xd)
     ELSE FracLess(xn, xd, yn, yd)

\* the sign of x - y; a NaN difference counts as 0, as sort takes it
SignOfDifference(x, y) ==
  IF x.kind = "NaN" \/ y.kind = "NaN" THEN 0
  ELSE IF x.kind = "Infinity" /\ y.kind = "Infinity"
    THEN IF x.neg = y.neg THEN 0 ELSE IF x.neg THEN -1 ELSE 1
  ELSE IF x.kind = "Infinity" THEN IF x.neg THEN -1 ELSE 1
  ELSE IF y.kind = "Infinity" THEN IF y.neg THEN 1 ELSE -1
  ELSE IF FiniteLess(x, y) THEN -1
  ELSE IF FiniteLess(y, x) THEN 1
  ELSE 0

\* the comparator applied to the elements e, f in this order
compareFn(e, f) == SignOfDifference(f.riskReward, e.riskReward)

\* the last place p in lo..hi at which xs[p] does not have to follow x, or 0:
\* where the scan from hi downwards stops
RECURSIVE lastNotAfter(_, _, _, _)
lastNotAfter(xs, x, lo, hi) ==
  IF lo > hi THEN 0
  ELSE IF lo = hi THEN IF compareFn(xs[lo], x) > 0 THEN 0 ELSE lo
  ELSE CHOOSE p \in
         { IF upper # 0 THEN upper
           ELSE lastNotAfter(xs, x, lo, (lo + hi) \div 2) :
             upper \in {lastNotAfter(xs, x, ((lo + hi) \div 2) + 1, hi)} } : TRUE

\* x inserted into the sorted xs behind every element that does not have
\* to follow it, the scan starting at pos
insertSorted(xs, x, pos) ==
  CHOOSE r \in { SubSeq(xs, 1, at) \o <<x>> \o SubSeq(xs, at + 1, Len(xs)) :
                   at \in {lastNotAfter(xs, x, 1, pos)} } : TRUE

\* the stable sort by linear insertion: xs[lo..hi] inserted one by one, in
\* order, into the sorted done
RECURSIVE sortPrefix(_, _, _, _)
sortPrefix(done, xs, lo, hi) ==
  IF lo > hi THEN done
  ELSE IF lo = hi THEN insertSorted(done, xs[lo], Len(done))
  ELSE CHOOSE r \in
         { sortPrefix(left, xs, ((lo + hi) \div 2) + 1, hi) :
             left \in {sortPrefix(done, xs, lo, (lo + hi) \div 2)} } : TRUE

sort(xs) == sortPrefix(<<>>, xs, 1, Len(xs))

\* the place of the pivot x in the sorted xs, found by bisection of
\* [left, right): order = comparefn(pivot, xs[mid]); order < 0 goes left
RECURSIVE binaryInsertPos(_, _, _, _)
binaryInsertPos(xs, x, left, right) ==
  IF left >= right THEN left
  ELSE IF compareFn(x, xs[((left + right) \div 2) + 1]) < 0
    THEN binaryInsertPos(xs, x, left, (left + right) \div 2)
  ELSE binaryInsertPos(xs, x, ((left + right) \div 2) + 1, right)

\* x inserted into the sorted xs at the place the bisection finds
binaryInsert(xs, x) ==
  CHOOSE r \in { SubSeq(xs, 1, pos) \o <<x>> \o SubSeq(xs, pos + 1, Len(xs)) :
                   pos \in {binaryInsertPos(xs, x, 0, Len(xs))} } : TRUE

\* the stable sort by binary insertion: xs[lo..hi] inserted one by one, in
\* order, into the sorted done
RECURSIVE binaryInsertionSortPrefix(_, _, _, _)
binaryInsertionSortPrefix(done, xs, lo, hi) ==
  IF lo > hi THEN done
  ELSE IF lo = hi THEN binaryInsert(done, xs[lo])
  ELSE CHOOSE r \in
         { binaryInsertionSortPrefix(left, xs, ((lo + hi) \div 2) + 1, hi) :
             left \in {binaryInsertionSortPrefix(done, xs, lo, (lo + hi) \div 2)} } :
           TRUE

binaryInsertionSort(xs) == binaryInsertionSortPrefix(<<>>, xs, 1, Len(xs))

\* the first place j in lo..hi at which x does not have to follow b[j], or
\* 0: where the pointer into b stops when x is the head of a
RECURSIVE firstNotBefore(_, _, _, _)
firstNotBefore(x, b, lo, hi) ==
  IF lo > hi THEN 0
  ELSE IF lo = hi THEN IF compareFn(x, b[lo]) <= 0 THEN lo ELSE 0
  ELSE CHOOSE j \in
         { IF lower # 0 THEN lower
           ELSE firstNotBefore(x, b, ((lo + hi) \div 2) + 1, hi) :
             lower \in {firstNotBefore(x, b, lo, (lo + hi) \div 2)} } : TRUE

\* the pointer into b at which each of a[lo..hi] is taken, after those of js
mergePointer(js, x, b) ==
  CHOOSE j \in
    { IF at = 0 THEN Len(b) + 1 ELSE at :
        at \in {firstNotBefore(x, b, IF js = <<>> THEN 1 ELSE js[Len(js)],
                                Len(b))} } : TRUE

RECURSIVE mergePointers(_, _, _, _, _)
mergePointers(js, a, b, lo, hi) ==
  IF lo > hi THEN js
  ELSE IF lo = hi THEN Append(js, mergePointer(js, a[lo], b))
  ELSE CHOOSE r \in
         { mergePointers(left, a, b, ((lo + hi) \div 2) + 1, hi) :
             left \in {mergePointers(js, a, b, lo, (lo + hi) \div 2)} } : TRUE

\* the merge of the sorted a and b; on a tie the element of a, which came
\* first, goes first.  a[n] is taken when the pointer into b stands at
\* js[n], so it follows js[n] - 1 elements of b.
mergeFrom(a, b) ==
  CHOOSE r \in
    { [p \in 1..(Len(a) + Len(b)) |->
         IF \E n \in 1..Len(a) : n + js[n] - 1 = p
           THEN a[CHOOSE n \in 1..Len(a) : n + js[n] - 1 = p]
         ELSE b[p - Cardinality({n \in 1..Len(a) : n + js[n] - 1 < p})]] :
        js \in {mergePointers(<<>>, a, b, 1, Len(a))} } : TRUE

\* the stable sort of xs by top-down merging
RECURSIVE mergeSort(_)
mergeSort(xs) ==
  IF Len(xs) <= 1 THEN xs
  ELSE CHOOSE r \in
         { mergeFrom(a, b) :
             a \in {mergeSort(SubSeq(xs, 1, Len(xs) \div 2))},
             b \in {mergeSort(SubSeq(xs, (Len(xs) \div 2) + 1, Len(xs)))} } : TRUE

\* what Array.prototype.sort(comparefn) may leave.  The sort is stable; with
\* a consistent comparator every algorithm yields the same order, and with
\* one that is not consistent (a NaN ratio compares as 0 with everything)
\* the order is implementation-defined: the outcomes of three stable
\* algorithms that engines use
sortOutcomes(xs) == {sort(xs), binaryInsertionSort(xs), mergeSort(xs)}

(***************************************************************************)
(* The outputs                                                              *)
(***************************************************************************)
\* x.toFixed(4) of a fixed-point x: sign and count of 1/10000
toFixed4(x) == [t |-> "fixed", neg |-> x < 0, units |-> (Abs(x) + 50) \div 100]

\* x.toFixed(4) of a JavaScript number
JsToFixed4(x) ==
  IF x.kind = "NaN" THEN [t |-> "NaN"]
  ELSE IF x.kind = "Infinity" THEN [t |-> "Infinity", neg |-> x.neg]
  ELSE [toFixed4(Ratio(Scaled(x.n, GridDen), Scaled(x.d, GridDen)))
          EXCEPT !.neg = x.neg]

\* x.toFixed(2) of a payoff x, NaN or an exact number of cents over
\* PayoffPoints: sign and count of 1/100 (cents)
toFixed2(x) ==
  IF x.nan THEN [t |-> "NaN"]
  ELSE [t |-> "fixed", neg |-> NumLt(x.v, Zero),
        units |-> NumAbs(x.v, PayoffPoints)[1]
                    + (IF 2 * NumAbs(x.v, PayoffPoints)[2] >= PayoffPoints
                         THEN 1 ELSE 0)]

(***************************************************************************)
(* Text.  A text is a sequence of pieces: single characters, and the words *)
(* of the program's string literals, which hold no comma.                   *)
(***************************************************************************)
\* the decimal digits of n >= 0
RECURSIVE IntToString(_)
IntToString(n) ==
  IF n < 10 THEN <<DigitChars[n + 1]>>
  ELSE IntToString(n \div 10) \o <<DigitChars[(n % 10) + 1]>>

\* the last k decimal digits of n, with leading zeros
RECURSIVE LastDigits(_, _)
LastDigits(n, k) ==
  IF k = 0 THEN <<>>
  ELSE LastDigits(n \div 10, k - 1) \o <<DigitChars[(n % 10) + 1]>>

\* String(x) of a number x of v cents
NumberToString(v) ==
  LET cents == Abs(v) % CentsPerUnit
  IN (IF v < 0 THEN <<"-">> ELSE <<>>)
       \o IntToString(Abs(v) \div CentsPerUnit)
       \o (IF cents = 0 THEN <<>>
           ELSE IF cents % 10 = 0 THEN <<".", DigitChars[(cents \div 10) + 1]>>
           ELSE <<".">> \o LastDigits(cents, 2))

\* the string toFixed(places) returns, from its sign and count of units
toFixedString(f, places) ==
  IF f.t = "NaN" THEN <<"N", "a", "N">>
  ELSE IF f.t = "Infinity"
    THEN (IF f.neg THEN <<"-">> ELSE <<>>) \o InfinityChars
  ELSE (IF f.neg THEN <<"-">> ELSE <<>>)
         \o IntToString(f.units \div (10 ^ places))
         \o <<".">> \o LastDigits(f.units, places)

\* the string Array.prototype.join makes of a chain cell: undefined gives
\* the empty string
StringOfCell(cell) ==
  IF cell.t = "number" THEN NumberToString(cell.v)
  ELSE IF cell.t = "string" THEN cell.s
  ELSE <<>>

\* fields.join(sep)
RECURSIVE join(_, _)
join(fields, sep) ==
  IF fields = <<>> THEN <<>>
  ELSE IF Len(fields) = 1 THEN fields[1]
  ELSE fields[1] \o <<sep>> \o join(Tail(fields), sep)

CsvHeader ==
  <<"Risk Reward Ratio", "Probability of Profit",
    "Call_Sell_Strike", "Call_Buy_Strike", "Put_Sell_Strike", "Put_Buy_Strike",
    "Call_Sell_Price", "Call_Buy_Price", "Put_Sell_Price", "Put_Buy_Price">>

\* the row createAndDownloadCSV makes of an entry
csvRow(M, entry) ==
  join(<< toFixedString(JsToFixed4(entry.riskReward), 4),
          toFixedString(toFixed4(entry.prob), 4),
          StringOfCell(At(M, StrikeRow, entry.indices[1])),
          StringOfCell(At(M, StrikeRow, entry.indices[2])),
          StringOfCell(At(M, StrikeRow, entry.indices[3])),
          StringOfCell(At(M, StrikeRow, entry.indices[4])),
          StringOfCell(At(M, CallRow, entry.indices[1])),
          StringOfCell(At(M, CallRow, entry.indices[2])),
          StringOfCell(At(M, PutRow, entry.indices[3])),
          StringOfCell(At(M, PutRow, entry.indices[4])) >>, ",")

\* csvContent of createAndDownloadCSV(riskRewardRatios): the lines that
\* [header, ...rows].join('\n') puts together
createAndDownloadCSV(M, entries) ==
  <<join([n \in 1..Len(CsvHeader) |-> <<CsvHeader[n]>>], ",")>>
    \o [n \in 1..Len(entries) |-> csvRow(M, entries[n])]

ExportHeader ==
  <<"Strategy Name", "Risk Reward Ratio", "Probability of Profit",
    "Max Profit", "Max Loss", "Break Even Points",
    "Call Sell Strike", "Call Buy Strike", "Put Sell Strike", "Put Buy Strike",
    "Call Sell Premium", "Call Buy Premium", "Put Sell Premium",
    "Put Buy Premium">>

\* x || '' for a strike (NaN or a number of cents) and for a premium: NaN
\* and 0 are falsy
strikeOrEmpty(x) == IF x.nan \/ x.v = 0 THEN <<>> ELSE NumberToString(x.v)

premiumOrEmpty(v) == IF v = 0 THEN <<>> ELSE NumberToString(v)

\* the row exportToCSV makes of a strategy and its analysis
exportRow(e) ==
  join(<< <<"Iron Condor ">> \o join([g \in 1..4 |-> IntToString(e.name[g])], "-"),
          toFixedString(JsToFixed4(e.riskReward), 4),
          toFixedString(toFixed4(e.prob), 4),
          toFixedString(toFixed2(e.riskMetrics.maxProfit), 2),
          toFixedString(toFixed2(e.riskMetrics.maxLoss), 2),
          join([n \in 1..Len(e.riskMetrics.breakEvenPoints) |->
                  toFixedString([t |-> "fixed", neg |-> FALSE,
                                 units |-> (e.riskMetrics.breakEvenPoints[n] + 50)
                                             \div 100], 2)], ";"),
          strikeOrEmpty(e.positions[1].strike),
          strikeOrEmpty(e.positions[2].strike),
          strikeOrEmpty(e.positions[3].strike),
          strikeOrEmpty(e.positions[4].strike),
          premiumOrEmpty(e.positions[1].premium),
          premiumOrEmpty(e.positions[2].premium),
          premiumOrEmpty(e.positions[3].premium),
          premiumOrEmpty(e.positions[4].premium) >>, ",")

\* ExcelProcessor.exportToCSV(strategies, analysisResults): the lines
exportToCSV(strategies) ==
  <<join([n \in 1..Len(ExportHeader) |-> <<ExportHeader[n]>>], ",")>>
    \o [n \in 1..Len(strategies) |-> exportRow(strategies[n])]

TopLimit == 100

\* what analyzeMatrix returns: sorted is strategies in the order of
\* sortedIndices
\* an analysis that names the strategy by the counter after its increment
analysisOfNext(e) ==
  [strategyId |-> e.id + 1,
   riskMetrics |-> [probabilityOfProfit |-> e.prob,
                    riskRewardRatio |-> e.riskReward,
                    maxProfit |-> e.riskMetrics.maxProfit,
                    maxLoss |-> e.riskMetrics.maxLoss,
                    breakEvenPoints |-> e.riskMetrics.breakEvenPoints]]

\* the analysis that analyzeMatrix pushes next to the strategy e
analysisOf(e) ==
  [strategyId |-> e.id,
   riskMetrics |-> [probabilityOfProfit |-> e.prob,
                    riskRewardRatio |-> e.riskReward,
                    maxProfit |-> e.riskMetrics.maxProfit,
                    maxLoss |-> e.riskMetrics.maxLoss,
                    breakEvenPoints |-> e.riskMetrics.breakEvenPoints]]

uploadResult(sorted, strategies, errs) ==
  [strategies |-> SubSeq(sorted, 1, Min2(TopLimit, Len(sorted))),
   analysisResults |-> [n \in 1..Min2(TopLimit, Len(sorted)) |->
                          analysisOf(sorted[n])],
   totalProcessed |-> Len(strategies),
   errors |-> IF Len(errs) > 0 THEN errs ELSE Undefined]

\* what a run leaves for its caller once the loops are over and the
\* records are sorted
outputOf(copy, M, sorted, records, errs) ==
  IF copy = "script" THEN [csvContent |-> createAndDownloadCSV(M, sorted)]
  ELSE uploadResult(sorted, records, errs)

(***************************************************************************)
(* The engine under test: a strategy is constructed from legs of a small    *)
(* chain, then one of its methods is called once.                           *)
(***************************************************************************)
MaxLegs == 3

KindSeq == <<"call", "put">>

ActionSeq == <<"buy", "sell">>

\* <<strike, premium, quantity>>, in cents
ContractSeq == <<<<4000, 300, 1>>, <<6000, 0, 2>>>>

NumLegChoices == Len(KindSeq) * Len(ActionSeq) * Len(ContractSeq)

\* <<optionType, action>> in other spellings and outside the enumerations
OddLegSeq ==
  <<<<"CALL", "Buy">>, <<"call", "hold">>, <<"straddle", "hold">>,
    <<"put", "hold">>>>

\* the constructor arguments of a leg
LegChoice(n) ==
  IF n > NumLegChoices
    THEN OptionPosition(OddLegSeq[n - NumLegChoices][1],
                        OddLegSeq[n - NumLegChoices][2],
                        ContractSeq[1][1], ContractSeq[1][2], ContractSeq[1][3])
  ELSE
    LET c == ContractSeq[((n - 1) % Len(ContractSeq)) + 1]
        a == ActionSeq[(((n - 1) \div Len(ContractSeq)) % Len(ActionSeq)) + 1]
        k == KindSeq[((n - 1) \div (Len(ContractSeq) * Len(ActionSeq))) + 1]
    IN OptionPosition(k, a, c[1], c[2], c[3])

\* at most MaxLegs legs in the enumerations, or at most two legs with the
\* odd ones among them; netPayoff is a sum and the first failing leg ends
\* it, so one order of each multiset of legs is constructed
StrategyChoices ==
  UNION { { [k \in 1..n |-> LegChoice(ix[k])] :
              ix \in { f \in [1..n -> 1..(NumLegChoices + Len(OddLegSeq))] :
                         /\ \A k \in 1..(n - 1) : f[k] <= f[k + 1]
                         /\ n > 2 => \A k \in 1..n : f[k] <= NumLegChoices } } :
          n \in 0..MaxLegs }

\* terminal prices handed to payoff and netPayoff, in cents
TerminalPrices == {3000, 4000, 4300, 6000, 7500}

\* (S0, T, r, sigma): S0 in cents, T in years
Markets ==
  { [S0 |-> 5000, T |-> Ratio(90, 365), r |-> 10000, sigma |-> 200000],
    [S0 |-> 5000, T |-> Ratio(1, 365), r |-> 0, sigma |-> 10000] }

Idle == [op |-> "none"]

NoOutput == [t |-> "none"]

NoRun == [t |-> "none"]

\* the pages before anything is done on them: the initial state of
\* useAuthStore and of the useState cells of ExcelUpload
NoUser == [t |-> "null"]

\* null in the field error, undefined in the field displayName
NoMessage == "null"

NoName == "undefined"

AuthIdle ==
  /\ store = [user |-> NoUser, isLoading |-> FALSE, isAuthenticated |-> FALSE,
              error |-> NoMessage]
  /\ calls = <<>>

UploadIdle ==
  /\ isDragging = FALSE
  /\ isProcessing = FALSE
  /\ progress = 0
  /\ uploadError = NoMessage
  /\ uploads = <<>>
  /\ completed = <<>>

\* the Combination Generator before a file is chosen
EnumIdle ==
  /\ internalMatrix = <<>>
  /\ phase = "idle"
  /\ cursor = NoTuple
  /\ tried = <<>>
  /\ readCells = {}
  /\ riskRewardRatios = <<>>
  /\ pushed = <<>>
  /\ errors = <<>>
  /\ output = NoOutput
  /\ csvContent = NoOutput
  /\ runs = 0
  /\ previous = NoRun

Init ==
  /\ positions \in StrategyChoices
  /\ ret = Idle
  /\ impl = "ts"
  /\ EnumIdle
  /\ AuthIdle
  /\ UploadIdle

NoValue == [t |-> "none"]

\* new OptionStrategy(...).positions[k].payoff(S_T) in a copy
Payoff(copy, k, S_T) ==
  /\ ret = Idle
  /\ ret' \in
       { [op |-> "payoff", copy |-> copy, strategy |-> built, leg |-> k,
          S_T |-> S_T,
          thrown |-> errorText(copy, payoffThrows(built[k])),
          value |-> IF payoffThrows(built[k]) # NoError THEN NoValue
                    ELSE payoff(built[k], Whole(S_T), 1)] :
         built \in {construct(copy, positions)} }
  /\ UNCHANGED <<positions, enumVars, pageVars>>

\* strategy.netPayoff(S_T) in a copy
NetPayoff(copy, S_T) ==
  /\ ret = Idle
  /\ ret' \in
       { [op |-> "netPayoff", copy |-> copy, strategy |-> built, S_T |-> S_T,
          thrown |-> errorText(copy, netPayoffThrows(built)),
          value |-> IF netPayoffThrows(built) # NoError THEN NoValue
                    ELSE netPayoff(built, Whole(S_T), 1)] :
         built \in {construct(copy, positions)} }
  /\ UNCHANGED <<positions, enumVars, pageVars>>

\* the result out as the copy hands it on
resultIn(copy, out) ==
  IF out.thrown = NoError THEN out
  ELSE [thrown |-> errorText(copy, out.thrown)]

\* strategy.probabilityOfProfit(S0, T, r, sigma) in each copy of the engine,
\* in a market of the set markets; copies that construct the same legs
\* compute the same
ProbabilityOfProfitIn(S0, markets) ==
  /\ ret = Idle
  /\ ret' \in
       UNION { UNION { { [op |-> "probabilityOfProfit", copy |-> copy,
                          strategy |-> built, market |-> m,
                          out |-> resultIn(copy,
                                    probabilityOfProfit(built, sp, S0, m.T, m.r,
                                                        m.sigma))] :
                         copy \in {c \in Engines : construct(c, positions) = built},
                         m \in {x \in markets : x.S0 = S0} } :
                       sp \in {sampledPayoffs(built, S0)} } :
               built \in {construct(c, positions) : c \in Engines} }
  /\ UNCHANGED <<positions, enumVars, pageVars>>

ProbabilityOfProfit(S0) == ProbabilityOfProfitIn(S0, Markets)

\* strategy.riskRewardRatio(S0, T, r, sigma) in each copy of the engine
RiskRewardRatio(S0) ==
  /\ ret = Idle
  /\ ret' \in
       UNION { UNION { { [op |-> "riskRewardRatio", copy |-> copy,
                          strategy |-> built, S0 |-> S0,
                          out |-> resultIn(copy, riskRewardRatio(copy, sp))] :
                         copy \in {c \in Engines : construct(c, positions) = built} } :
                       sp \in {sampledPayoffs(built, S0)} } :
               built \in {construct(c, positions) : c \in Engines} }
  /\ UNCHANGED <<positions, enumVars, pageVars>>

Next ==
  \/ \E copy \in Engines, k \in 1..Len(positions), S_T \in TerminalPrices :
       Payoff(copy, k, S_T)
  \/ \E copy \in Engines, S_T \in TerminalPrices : NetPayoff(copy, S_T)
  \/ \E S0 \in {m.S0 : m \in Markets} : ProbabilityOfProfit(S0)
  \/ \E S0 \in {m.S0 : m \in Markets} : RiskRewardRatio(S0)

Spec == Init /\ [][Next]_vars

(***************************************************************************)
(* The iron condor: sell call@110, buy call@120, sell put@90, buy put@80   *)
(* at S0 = 100, over a few premiums per leg and three markets.             *)
(***************************************************************************)
\* S0 = 100, in cents
CondorS0 == 100 * CentsPerUnit

\* premiums of the sold and of the bought legs, in cents
SoldPremiums == {100, 300, 600}

BoughtPremiums == {0, 100}

CondorChoices ==
  { << OptionPosition("call", "sell", 11000, cs, 1),
       OptionPosition("call", "buy", 12000, cb, 1),
       OptionPosition("put", "sell", 9000, ps, 1),
       OptionPosition("put", "buy", 8000, pb, 1) >> :
    cs \in SoldPremiums, cb \in BoughtPremiums,
    ps \in SoldPremiums, pb \in BoughtPremiums }

\* the market of the Combination Generator, that of three months at
\* sigma = 0.2, and one of a year at sigma = 0.5
CondorMarkets ==
  { [S0 |-> CondorS0, T |-> Market_T, r |-> Market_r, sigma |-> Market_sigma],
    [S0 |-> CondorS0, T |-> Ratio(90, 365), r |-> 10000, sigma |-> 200000],
    [S0 |-> CondorS0, T |-> FP, r |-> 0, sigma |-> 500000] }

InitCondor ==
  /\ positions \in CondorChoices
  /\ ret = Idle
  /\ impl = "ts"
  /\ EnumIdle
  /\ AuthIdle
  /\ UploadIdle

NextCondor == ProbabilityOfProfitIn(CondorS0, CondorMarkets)

SpecCondor == InitCondor /\ [][NextCondor]_vars


(***************************************************************************)
(* The Combination Generator: the click handler of script.js and           *)
(* ExcelProcessor.analyzeMatrix.  A run starts with a sheet, executes one   *)
(* iteration of the innermost loop per step, and its last step ranks the    *)
(* records and produces the output.                                         *)
(***************************************************************************)
MaxRuns == 2

Filler == NumberCell(0)

\* a sheet row; the chain occupies columns 5 (call price), 6 (strike) and
\* 7 (put price)
ChainRow(call, strike, put) ==
  <<Filler, Filler, Filler, Filler, Filler, call, strike, put>>

\* a sheet row whose last cell is missing
ShortRow(call, strike) == <<Filler, Filler, Filler, Filler, Filler, call, strike>>

HeaderRow ==
  ChainRow(StringCell(<<"C", "E">>), StringCell(<<"S", "T", "R", "I", "K", "E">>),
           StringCell(<<"P", "E">>))

Row1 == ChainRow(NumberCell(70000), NumberCell(2300000), NumberCell(13000))

Row2 == ChainRow(NumberCell(38000), NumberCell(2350000), NumberCell(31000))

Row3 == ChainRow(NumberCell(17000), NumberCell(2400000), NumberCell(60000))

\* the call price "380.00 Rs" written as text
Row2Text ==
  ChainRow(StringCell(<<"3", "8", "0", ".", "0", "0", " ", "R", "s">>),
           NumberCell(2350000), NumberCell(31000))

\* a dash in place of the call price
Row2NoCall == ChainRow(StringCell(<<"-">>), NumberCell(2350000), NumberCell(31000))

\* a dash in place of the strike
Row2NoStrike == ChainRow(NumberCell(38000), StringCell(<<"-">>), NumberCell(31000))

\* "n/a" as call price and no put price
Row3Blank == ShortRow(StringCell(<<"n", "/", "a">>), NumberCell(2400000))

\* a dash in place of the put price
Row1NoPut == ChainRow(NumberCell(70000), NumberCell(2300000), StringCell(<<"-">>))

\* a row that quotes the put only: dashes for call price and strike
Row4PutOnly == ChainRow(StringCell(<<"-">>), StringCell(<<"-">>), NumberCell(100000))

\* the sheets handed to a run: each has the header row and the three chain
\* columns, so rows 5, 6 and 7 of the transposed table exist
Sheets ==
  { <<HeaderRow>>,
    <<HeaderRow, Row1>>,
    <<HeaderRow, Row1, Row2>>,
    <<HeaderRow, Row1, Row2Text>>,
    <<HeaderRow, Row1, Row2, Row3>>,
    <<HeaderRow, Row1, Row2, Row3Blank>>,
    <<HeaderRow, Row1, Row2NoCall, Row3>>,
    <<HeaderRow, Row1, Row2NoStrike, Row3>>,
    <<HeaderRow, Row1NoPut, Row2, Row3, Row4PutOnly>> }

\* the line the skipped candidate c leaves on the console of script.js
errorLine(c) == <<c[1] + 1, c[2] + 1, c[3] + 1, c[4] + 1>>

InitEnum ==
  /\ positions = <<>>
  /\ ret = Idle
  /\ impl \in {"script", "ts"}
  /\ EnumIdle
  /\ AuthIdle
  /\ UploadIdle

\* a file is chosen and converted: the table is transposed and the loops
\* are entered; with no tuple to try the run ends at once
Click(matrix) ==
  /\ phase = "idle" \/ (phase = "done" /\ runs < MaxRuns)
  /\ runs' = runs + 1
  /\ previous' = IF phase = "done"
                   THEN [t |-> "run", output |-> output,
                         skipped |-> Len(tried) - Len(riskRewardRatios)]
                 ELSE NoRun
  /\ internalMatrix' = transposeMatrix(matrix)
  /\ cursor' = FirstTuple(maxRowsOf(internalMatrix'))
  /\ tried' = <<>>
  /\ readCells' = {}
  /\ riskRewardRatios' = <<>>
  /\ pushed' = <<>>
  /\ errors' = <<>>
  /\ csvContent' = NoOutput
  /\ IF cursor' = NoTuple
       THEN /\ phase' = "done"
            /\ output' = outputOf(impl, internalMatrix', <<>>, <<>>, <<>>)
     ELSE /\ phase' = "enumerating"
          /\ output' = NoOutput
  /\ UNCHANGED <<engineVars, pageVars, impl>>

\* one iteration of the innermost loop; the last one is followed by the
\* sort and the output.  script.js sorts riskRewardRatios itself, in place;
\* analyzeMatrix sorts an array of {analysis, index} pairs made for that
\* purpose and leaves strategies and analysisResults as they are.
Candidate ==
  /\ phase = "enumerating"
  /\ tried' = Append(tried, cursor)
  /\ readCells' = readCells \cup cellsRead(internalMatrix, cursor)
  /\ IF allNumeric(internalMatrix, cursor)
       THEN /\ pushed' \in
                 { Append(pushed,
                          entryOf(impl, cursor, Len(pushed),
                                  positionsOf(internalMatrix, cursor), m)) :
                   m \in {metricsOf(impl, positionsOf(internalMatrix, cursor))} }
            /\ errors' = errors
     ELSE /\ pushed' = pushed
          /\ errors' = IF impl = "script" THEN Append(errors, errorLine(cursor))
                       ELSE errors
  /\ cursor' = NextTuple(cursor, maxRowsOf(internalMatrix))
  /\ IF cursor' = NoTuple
       THEN /\ phase' = "done"
            /\ \E sorted \in sortOutcomes(pushed') :
                 /\ riskRewardRatios' = IF impl = "script" THEN sorted ELSE pushed'
                 /\ output' = outputOf(impl, internalMatrix, sorted, pushed', errors')
     ELSE /\ phase' = "enumerating"
          /\ riskRewardRatios' = pushed'
          /\ output' = output
  /\ UNCHANGED <<engineVars, pageVars, impl, internalMatrix, csvContent, runs, previous>>

NextEnum ==
  \/ \E matrix \in Sheets : Click(matrix)
  \/ Candidate

SpecEnum == InitEnum /\ [][NextEnum]_vars

(***************************************************************************)
(* The export.  script.js downloads the CSV at the end of the run; the     *)
(* page of App.tsx keeps what analyzeMatrix returned as uploadResult and   *)
(* makes the CSV when the download button is clicked.                      *)
(***************************************************************************)
\* a row at strike 0 with no call price, whose put is quoted at 0
Row0 == ChainRow(StringCell(<<"-">>), NumberCell(0), NumberCell(0))

Row4 == ChainRow(NumberCell(7000), NumberCell(2450000), NumberCell(98000))

Row5 == ChainRow(NumberCell(2500), NumberCell(2500000), NumberCell(144000))

\* the deepest call, with a dash in place of the put price
Row6NoPut == ChainRow(NumberCell(900), NumberCell(2550000), StringCell(<<"-">>))

\* a chain with one pair of calls and one pair of puts, both puts at strike
\* 0, and a chain of six rows: 15 pairs of calls and 10 pairs of puts
ExportSheets ==
  { <<HeaderRow, Row0, Row0, Row1NoPut, Row6NoPut>>,
    <<HeaderRow, Row1, Row2, Row3, Row4, Row5, Row6NoPut>> }

\* downloadUploadResults of App.tsx: exportToCSV of the strategies and
\* analysis results that analyzeMatrix returned
DownloadUploadResults ==
  /\ impl = "ts"
  /\ phase = "done"
  /\ csvContent' = exportToCSV(output.strategies)
  /\ UNCHANGED <<engineVars, pageVars, impl, internalMatrix, phase, cursor, tried,
                 readCells, riskRewardRatios, pushed, errors, output, runs,
                 previous>>

NextExport ==
  \/ \E matrix \in ExportSheets : Click(matrix)
  \/ Candidate
  \/ DownloadUploadResults

SpecExport == InitEnum /\ [][NextExport]_vars

\* analyzeMatrix alone, run on the same chains; the chain of six rows
\* yields more records than analyzeMatrix returns
InitAnalyze == InitEnum /\ impl = "ts"

NextAnalyze ==
  \/ \E matrix \in ExportSheets : Click(matrix)
  \/ Candidate

SpecAnalyze == InitAnalyze /\ [][NextAnalyze]_vars

(***************************************************************************)
(* The auth store (useAuthStore).  The store is the object that zustand    *)
(* keeps; set(partial) merges partial into it.  Every action of the store   *)
(* is an async function: it runs up to its first await when it is called,   *)
(* and each later part runs when the awaited request of the backend         *)
(* resolves.  Calls may overlap; calls holds one record per call with the   *)
(* request it waits for and the locals it captured.                         *)
(***************************************************************************)
MaxCalls == 3

\* the one account of the backend, the display names its profile row may
\* hold and the one Partial<User> passed to updateProfile
UserId == "u1"

DisplayNames == {NoName, "Ann"}

Updates == [displayName |-> "Bob"]

\* error.message of a failed request
Message == "request failed"

User(id, displayName, updated) ==
  [t |-> "user", id |-> id, displayName |-> displayName, updated |-> updated]

\* set(partial) on the state s
merge(s, partial) ==
  [f \in DOMAIN s |-> IF f \in DOMAIN partial THEN partial[f] ELSE s[f]]

\* a call of the store action op that waits for the request pc
Call(op, pc, local) == [op |-> op, pc |-> pc, local |-> local]

Settled(op) == Call(op, "settled", NoUser)

Waits(c, op, pc) ==
  c \in 1..Len(calls) /\ calls[c].op = op /\ calls[c].pc = pc

\* the call is made: the part before the first await
Begin(op, partial, local) ==
  /\ Len(calls) < MaxCalls
  /\ store' = merge(store, partial)
  /\ calls' = Append(calls, Call(op, "auth", local))
  /\ UNCHANGED <<engineVars, enumVars, uploadVars>>

\* a request resolves and the call ends after set(partial)
End(c, partial) ==
  /\ store' = merge(store, partial)
  /\ calls' = [calls EXCEPT ![c] = Settled(calls[c].op)]
  /\ UNCHANGED <<engineVars, enumVars, uploadVars>>

\* a request resolves and the call goes on to await the request pc
Await(c, pc, local) ==
  /\ calls' = [calls EXCEPT ![c] = Call(calls[c].op, pc, local)]
  /\ UNCHANGED <<store, engineVars, enumVars, uploadVars>>

\* catch (error) { set({ error: error.message, isLoading: false }) }
Caught == [error |-> Message, isLoading |-> FALSE]

SignIn == Begin("signIn", [isLoading |-> TRUE, error |-> NoMessage], NoUser)

\* signInWithPassword resolves with an error, with a user, or with neither
SignInAuth(c, response) ==
  /\ Waits(c, "signIn", "auth")
  /\ IF response = "error" THEN End(c, Caught)
     ELSE IF response = "user"
       THEN Await(c, "profile", NoUser)
     ELSE End(c, << >>)

\* the profile row arrives (display_name || undefined)
SignInProfile(c, display_name) ==
  /\ Waits(c, "signIn", "profile")
  /\ End(c, [user |-> User(UserId, display_name, FALSE),
             isAuthenticated |-> TRUE, isLoading |-> FALSE])

SignUp(displayName) ==
  Begin("signUp", [isLoading |-> TRUE, error |-> NoMessage],
        User(UserId, displayName, FALSE))

SignUpAuth(c, response) ==
  /\ Waits(c, "signUp", "auth")
  /\ IF response = "error" THEN End(c, Caught)
     ELSE IF response = "user"
       THEN Await(c, "profile", calls[c].local)
     ELSE End(c, << >>)

\* the insert into user_profiles resolves, with profileError or without
SignUpProfile(c, profileError) ==
  /\ Waits(c, "signUp", "profile")
  /\ IF profileError THEN End(c, Caught)
     ELSE End(c, [user |-> calls[c].local, isAuthenticated |-> TRUE,
                  isLoading |-> FALSE])

SignOut == Begin("signOut", [isLoading |-> TRUE], NoUser)

SignOutAuth(c, failed) ==
  /\ Waits(c, "signOut", "auth")
  /\ IF failed THEN End(c, Caught)
     ELSE End(c, [user |-> NoUser, isAuthenticated |-> FALSE,
                  isLoading |-> FALSE])

ResetPassword == Begin("resetPassword", [isLoading |-> TRUE, error |-> NoMessage], NoUser)

ResetPasswordAuth(c, failed) ==
  /\ Waits(c, "resetPassword", "auth")
  /\ IF failed THEN End(c, Caught) ELSE End(c, [isLoading |-> FALSE])

\* const { user } = get(); if (!user) return; the user read here is the one
\* that is spread into the store when the update resolves
UpdateProfile ==
  /\ store.user # NoUser
  /\ Begin("updateProfile", [isLoading |-> TRUE, error |-> NoMessage], store.user)

UpdateProfileAuth(c, failed) ==
  /\ Waits(c, "updateProfile", "auth")
  /\ IF failed THEN End(c, Caught)
     ELSE End(c, [user |-> User(calls[c].local.id, Updates.displayName, TRUE),
                  isLoading |-> FALSE])

ClearError ==
  /\ store' = merge(store, [error |-> NoMessage])
  /\ UNCHANGED <<calls, engineVars, enumVars, uploadVars>>

Initialize == Begin("initialize", [isLoading |-> TRUE], NoUser)

\* getSession resolves with a session, with none, or the await throws; the
\* finally block sets isLoading to false on every path that ends here
InitializeAuth(c, response) ==
  /\ Waits(c, "initialize", "auth")
  /\ IF response = "throws"
       THEN End(c, [error |-> Message, isLoading |-> FALSE])
     ELSE IF response = "session"
       THEN Await(c, "profile", NoUser)
     ELSE End(c, [isLoading |-> FALSE])

InitializeProfile(c, display_name) ==
  /\ Waits(c, "initialize", "profile")
  /\ End(c, [user |-> User(UserId, display_name, FALSE),
             isAuthenticated |-> TRUE, isLoading |-> FALSE])

\* a request of the backend resolves and the call that awaits it goes on
Resolve ==
  \E c \in 1..MaxCalls :
    \/ \E response \in {"error", "user", "neither"} : SignInAuth(c, response)
    \/ \E display_name \in DisplayNames : SignInProfile(c, display_name)
    \/ \E response \in {"error", "user", "neither"} : SignUpAuth(c, response)
    \/ \E profileError \in BOOLEAN : SignUpProfile(c, profileError)
    \/ \E failed \in BOOLEAN : SignOutAuth(c, failed)
    \/ \E failed \in BOOLEAN : ResetPasswordAuth(c, failed)
    \/ \E failed \in BOOLEAN : UpdateProfileAuth(c, failed)
    \/ \E response \in {"throws", "session", "none"} : InitializeAuth(c, response)
    \/ \E display_name \in DisplayNames : InitializeProfile(c, display_name)

InitAuth ==
  /\ positions = <<>>
  /\ ret = Idle
  /\ impl = "ts"
  /\ EnumIdle
  /\ AuthIdle
  /\ UploadIdle

NextAuth ==
  \/ SignIn
  \/ \E displayName \in DisplayNames : SignUp(displayName)
  \/ SignOut
  \/ ResetPassword
  \/ UpdateProfile
  \/ ClearError
  \/ Initialize
  \/ Resolve

SpecAuth == InitAuth /\ [][NextAuth]_vars

\* a request that was issued is answered, and the event loop resumes the
\* call that awaits the answer
SpecAuthFair == SpecAuth /\ WF_vars(Resolve)

(***************************************************************************)
(* The upload card (ExcelUpload).  The four useState cells are variables;   *)
(* uploads holds one record per call of handleFileUpload that passed the    *)
(* check of the file name: the file, where the call stands ("processFile"   *)
(* while it awaits ExcelProcessor.processFile, "timeout" while the 500 ms   *)
(* timer runs, then "done" or "failed") and whether the interval it started *)
(* is still registered.  completed lists the uploads whose result was       *)
(* handed to onUploadComplete.                                              *)
(***************************************************************************)
MaxUploads == 2

\* file names, as the part before the last dot and the part from it
FileNames == {<<"chain", ".xlsx">>, <<"chain", ".xls">>, <<"notes", ".txt">>}

\* file.name.match(/\.(xlsx|xls)$/)
matches(name) == name[Len(name)] \in {".xlsx", ".xls"}

\* e.dataTransfer.files and e.target.files: no file or one
FileLists == {<<>>} \cup {<<name>> : name \in FileNames}

InvalidFile == "Please select a valid Excel file (.xlsx or .xls)"

FailedToProcess == "Failed to process Excel file"

\* err.message of a rejection of processFile
Rejections == {"", "No data found in Excel file"}

ProgressStep == 10

ProgressCap == 90

ProgressDone == 100

\* handleFileUpload(file) up to its await
handleFileUpload(name) ==
  IF ~matches(name)
    THEN /\ uploadError' = InvalidFile
         /\ UNCHANGED <<isProcessing, progress, uploads>>
  ELSE /\ Len(uploads) < MaxUploads
       /\ isProcessing' = TRUE
       /\ progress' = 0
       /\ uploadError' = NoMessage
       /\ uploads' = Append(uploads, [file |-> name, pc |-> "processFile",
                                      interval |-> TRUE])

DragEnter ==
  /\ isDragging' = TRUE
  /\ UNCHANGED <<isProcessing, progress, uploadError, uploads, completed,
                 engineVars, enumVars, authVars>>

DragLeave ==
  /\ isDragging' = FALSE
  /\ UNCHANGED <<isProcessing, progress, uploadError, uploads, completed,
                 engineVars, enumVars, authVars>>

\* onDrop of the drop zone
HandleDrop(files) ==
  /\ isDragging' = FALSE
  /\ IF Len(files) > 0 THEN handleFileUpload(files[1])
     ELSE UNCHANGED <<isProcessing, progress, uploadError, uploads>>
  /\ UNCHANGED <<completed, engineVars, enumVars, authVars>>

\* onChange of the file input, which is disabled while isProcessing
HandleFileSelect(files) ==
  /\ ~isProcessing
  /\ IF Len(files) > 0 THEN handleFileUpload(files[1])
     ELSE UNCHANGED <<isProcessing, progress, uploadError, uploads>>
  /\ UNCHANGED <<isDragging, completed, engineVars, enumVars, authVars>>

\* the callback of setInterval of the upload u
Tick(u) ==
  /\ u \in 1..Len(uploads)
  /\ uploads[u].interval
  /\ progress' = Min2(progress + ProgressStep, ProgressCap)
  /\ UNCHANGED <<isDragging, isProcessing, uploadError, uploads, completed,
                 engineVars, enumVars, authVars>>

\* processFile resolves: the interval is cleared and the timer is set
ProcessFileResolves(u) ==
  /\ u \in 1..Len(uploads)
  /\ uploads[u].pc = "processFile"
  /\ uploads' = [uploads EXCEPT ![u].pc = "timeout", ![u].interval = FALSE]
  /\ progress' = ProgressDone
  /\ UNCHANGED <<isDragging, isProcessing, uploadError, completed,
                 engineVars, enumVars, authVars>>

\* processFile rejects: the catch block
ProcessFileRejects(u, message) ==
  /\ u \in 1..Len(uploads)
  /\ uploads[u].pc = "processFile"
  /\ uploads' = [uploads EXCEPT ![u].pc = "failed"]
  /\ uploadError' = IF message = "" THEN FailedToProcess ELSE message
  /\ isProcessing' = FALSE
  /\ progress' = 0
  /\ UNCHANGED <<isDragging, completed, engineVars, enumVars, authVars>>

\* the callback of setTimeout of the upload u
Timeout(u) ==
  /\ u \in 1..Len(uploads)
  /\ uploads[u].pc = "timeout"
  /\ completed' = Append(completed, u)
  /\ uploads' = [uploads EXCEPT ![u].pc = "done"]
  /\ isProcessing' = FALSE
  /\ progress' = 0
  /\ UNCHANGED <<isDragging, uploadError, engineVars, enumVars, authVars>>

InitUpload ==
  /\ positions = <<>>
  /\ ret = Idle
  /\ impl = "ts"
  /\ EnumIdle
  /\ AuthIdle
  /\ UploadIdle

NextUpload ==
  \/ DragEnter
  \/ DragLeave
  \/ \E files \in FileLists : HandleDrop(files)
  \/ \E files \in FileLists : HandleFileSelect(files)
  \/ \E u \in 1..MaxUploads : Tick(u)
  \/ \E u \in 1..MaxUploads : ProcessFileResolves(u)
  \/ \E u \in 1..MaxUploads, message \in Rejections : ProcessFileRejects(u, message)
  \/ \E u \in 1..MaxUploads : Timeout(u)

SpecUpload == InitUpload /\ [][NextUpload]_vars

(***************************************************************************)
(* Properties of the engine                                                 *)
(***************************************************************************)
Max2(a, b) == IF a >= b THEN a ELSE b

\* kind and action of the position p are in their enumerations
InEnumerations(p) ==
  p.optionType \in {"call", "put"} /\ p.action \in {"buy", "sell"}

AllInEnumerations(ps) == \A k \in 1..Len(ps) : InEnumerations(ps[k])

\* the payoff law of a position at the whole price S, in cents
PayoffLaw(p, S) ==
  IF p.optionType = "call" /\ p.action = "buy"
    THEN p.quantity * (Max2(S - p.strike, 0) - p.premium)
  ELSE IF p.optionType = "call" /\ p.action = "sell"
    THEN p.quantity * (p.premium - Max2(S - p.strike, 0))
  ELSE IF p.optionType = "put" /\ p.action = "buy"
    THEN p.quantity * (Max2(p.strike - S, 0) - p.premium)
  ELSE p.quantity * (p.premium - Max2(p.strike - S, 0))

\* C1: payoff(S) of a position with kind in {call, put} and action in
\* {buy, sell} is q*(max(S-K,0) - p) for a bought call, q*(p - max(S-K,0))
\* for a sold call, q*(max(K-S,0) - p) for a bought put and
\* q*(p - max(K-S,0)) for a sold put.
C1_PayoffLaws ==
  (ret.op = "payoff" /\ InEnumerations(ret.strategy[ret.leg])) =>
    /\ ret.thrown = NoError
    /\ ret.value = Whole(PayoffLaw(ret.strategy[ret.leg], ret.S_T))

C1_Witness ==
  /\ ret.op = "payoff"
  /\ ret.strategy[ret.leg].optionType = "put"
  /\ ret.strategy[ret.leg].action = "sell"
  /\ ret.strategy[ret.leg].quantity = 2
  /\ ret.S_T < ret.strategy[ret.leg].strike
  /\ ret.value = Whole(2 * (ret.S_T - ret.strategy[ret.leg].strike))

\* the sum of payoff over the legs whose index is in ix, each taken once
RECURSIVE SumOfPayoffs(_, _, _)
SumOfPayoffs(ps, ix, S) ==
  IF ix = {} THEN Zero
  ELSE LET k == CHOOSE k \in ix : TRUE
       IN NumAdd(payoff(ps[k], Whole(S), 1), SumOfPayoffs(ps, ix \ {k}, S), 1)

\* C2: netPayoff(S) is the unweighted sum of payoff(S) over all positions of
\* the strategy, each leg counted exactly once; a strategy without legs
\* yields 0.
C2_NetPayoffIsSum ==
  (ret.op = "netPayoff" /\ AllInEnumerations(ret.strategy)) =>
    /\ ret.thrown = NoError
    /\ ret.value = SumOfPayoffs(ret.strategy, DOMAIN ret.strategy, ret.S_T)
    /\ (ret.strategy = <<>> => ret.value = Zero)

C2_Witness ==
  /\ ret.op = "netPayoff"
  /\ Len(ret.strategy) = 3
  /\ ret.strategy[1] = ret.strategy[2]
  /\ ret.strategy[3] # ret.strategy[2]
  /\ ret.thrown = NoError
  /\ payoff(ret.strategy[1], Whole(ret.S_T), 1) # Zero
  /\ ret.value # Zero

\* C3: probabilityOfProfit returns a value in [0, 1] whichever branch it
\* takes (no boundary, one boundary, two boundaries, integration).
C3_ProbabilityInUnitInterval ==
  (ret.op = "probabilityOfProfit" /\ ret.out.thrown = NoError) =>
    (0 <= ret.out.value /\ ret.out.value <= FP)

\* C4: probabilityOfProfit returns exactly 1.0 when netPayoff is positive at
\* all sampled prices and exactly 0.0 when it is positive at none, without
\* throwing and without locating a boundary.
C4_DegenerateStrategy ==
  (ret.op = "probabilityOfProfit" /\ AllInEnumerations(ret.strategy)) =>
    /\ ret.out.thrown = NoError
    /\ ret.out.positives = NumSamples =>
         (ret.out.value = FP /\ ret.out.branch = "all" /\ ret.out.breakPoints = <<>>)
    /\ ret.out.positives = 0 =>
         (ret.out.value = 0 /\ ret.out.branch = "none" /\ ret.out.breakPoints = <<>>)
    /\ ret.out.branch \in {"all", "none"} <=> ret.out.positives \in {0, NumSamples}

C4_Witness ==
  /\ ret.op = "probabilityOfProfit"
  /\ Len(positions) = 2
  /\ ret.out.thrown = NoError
  /\ ret.out.positives = NumSamples
  /\ ret.out.value = FP

\* C5: riskRewardRatio returns +Infinity when the maximum sampled payoff is
\* 0 and the minimum is negative, and 0 when both are 0.
C5_ZeroMaxProfit ==
  (ret.op = "riskRewardRatio" /\ ret.out.thrown = NoError) =>
    /\ (ret.out.maxProfit = Zero /\ NumLt(ret.out.maxLoss, Zero))
         => ret.out.value = JsInfinity
    /\ (ret.out.maxProfit = Zero /\ ret.out.maxLoss = Zero)
         => ret.out.value = JsZero

C5_Witness ==
  /\ ret.op = "riskRewardRatio"
  /\ Len(positions) > 0
  /\ ret.out.thrown = NoError
  /\ ret.out.maxProfit = Zero
  /\ NumLt(ret.out.maxLoss, Zero)
  /\ ret.out.value = JsInfinity

\* the denominator of the ratio a copy of riskRewardRatio computes
RatioDenominator(copy, out) ==
  IF copy = "script" THEN out.maxProfit ELSE out.maxLoss

\* C6: riskRewardRatio never divides by zero: whenever the denominator of
\* its ratio (maxProfit in script.js, maxLoss in optionStrategy.js and
\* optionCalculations.ts) is zero, the result comes from the explicit
\* Infinity/0 branch.
C6_NoDivisionByZero ==
  (ret.op = "riskRewardRatio" /\ ret.out.thrown = NoError) =>
    (RatioDenominator(ret.copy, ret.out) = Zero => ret.out.branch = "explicit")

\* the first leg of ps whose kind or action is outside its enumeration
FirstOddLeg(ps) ==
  ps[CHOOSE k \in 1..Len(ps) :
       ~InEnumerations(ps[k]) /\ \A h \in 1..(k - 1) : InEnumerations(ps[h])]

\* error is the invalid-kind error for a leg of neither kind, and the
\* invalid-action error for a leg of valid kind and neither action
ThrowsAsClaimed(error, p) ==
  IF p.optionType \notin {"call", "put"}
    THEN error \in {InvalidKind, InvalidKindJs}
  ELSE error = InvalidAction

\* C15: payoff on a position whose kind is neither call nor put fails with
\* the invalid-kind error, and on one of valid kind whose action is neither
\* buy nor sell with the invalid-action error; no number is returned, and
\* netPayoff, probabilityOfProfit and riskRewardRatio of a strategy holding
\* such a leg fail with the error of its first such leg and return no value.
C15_InvalidLegFails ==
  /\ (ret.op = "payoff" /\ ~InEnumerations(ret.strategy[ret.leg])) =>
       /\ ThrowsAsClaimed(ret.thrown, ret.strategy[ret.leg])
       /\ ret.value = NoValue
  /\ (ret.op = "netPayoff" /\ ~AllInEnumerations(ret.strategy)) =>
       /\ ThrowsAsClaimed(ret.thrown, FirstOddLeg(ret.strategy))
       /\ ret.value = NoValue
  /\ (ret.op \in {"probabilityOfProfit", "riskRewardRatio"}
        /\ ~AllInEnumerations(ret.strategy)) =>
       /\ ThrowsAsClaimed(ret.out.thrown, FirstOddLeg(ret.strategy))
       /\ "value" \notin DOMAIN ret.out

C15_Witness ==
  /\ ret.op = "probabilityOfProfit"
  /\ ret.copy = "ts"
  /\ Len(ret.strategy) = 2
  /\ ret.strategy[1].optionType = "call"
  /\ ret.strategy[1].action = "hold"
  /\ ret.strategy[2].optionType = "straddle"
  /\ ret.out.thrown = InvalidAction

\* C16: a position given a kind or action outside its enumeration aborts
\* construction: no strategy that a call is made on holds such a leg.
C16_NoInvalidLegConstructed ==
  (ret.op # "none") => AllInEnumerations(ret.strategy)

\* the copy c fails where the call of ret is made on its strategy
FailsIn(c) ==
  IF ret.op = "payoff"
    THEN payoffThrows(construct(c, positions)[ret.leg]) # NoError
  ELSE netPayoffThrows(construct(c, positions)) # NoError

\* C17: the three copies of the engine agree on payoff, netPayoff and
\* probabilityOfProfit: for the same constructor arguments and the same
\* market every copy returns the value that the copy called returned, or
\* all fail; in riskRewardRatio script.js returns |maxLoss| / maxProfit and
\* the other two |maxProfit / maxLoss|.
C17_CopiesEquivalent ==
  /\ ret.op = "payoff" =>
       \A c \in Engines :
         /\ FailsIn(c) = (ret.thrown # NoError)
         /\ ~FailsIn(c) =>
              payoff(construct(c, positions)[ret.leg], Whole(ret.S_T), 1) = ret.value
  /\ ret.op = "netPayoff" =>
       \A c \in Engines :
         /\ FailsIn(c) = (ret.thrown # NoError)
         /\ ~FailsIn(c) =>
              netPayoff(construct(c, positions), Whole(ret.S_T), 1) = ret.value
  /\ ret.op = "probabilityOfProfit" =>
       \A c \in Engines :
         \/ construct(c, positions) = ret.strategy
         \/ /\ FailsIn(c) = (ret.out.thrown # NoError)
            /\ ~FailsIn(c) =>
                 probabilityOfProfit(construct(c, positions),
                                     sampledPayoffs(construct(c, positions),
                                                    ret.market.S0),
                                     ret.market.S0, ret.market.T, ret.market.r,
                                     ret.market.sigma).value = ret.out.value
  /\ (ret.op = "riskRewardRatio" /\ ret.out.thrown = NoError
        /\ ret.out.branch = "division") =>
       ret.out.value =
         IF ret.copy = "script"
           THEN JsDivide(NumAbs(ret.out.maxLoss, GridDen), ret.out.maxProfit, GridDen)
         ELSE MathAbs(JsDivide(ret.out.maxProfit, ret.out.maxLoss, GridDen))

\* z of the k-th boundary that the call of ret located
BoundaryZ(k) ==
  zScore(S_vals(ret.market.S0, ret.out.breakPoints[k]), GridDen, ret.market.S0,
         ret.market.T, ret.market.r, ret.market.sigma)

\* C19: when the sign of the sampled payoff flips exactly twice,
\* probabilityOfProfit returns Phi(z2) - Phi(z1), z1 from the lower and z2
\* from the higher boundary, and that is the probability of the profitable
\* region: the payoff is positive at the samples from the first boundary up
\* to the second and at no other, the lowest and the highest included.
C19_TwoBoundariesProfitInside ==
  (ret.op = "probabilityOfProfit" /\ ret.out.thrown = NoError
     /\ Len(ret.out.breakPoints) = 2) =>
    /\ ret.out.value = cumulativeNormalDistribution(BoundaryZ(2))
                         - cumulativeNormalDistribution(BoundaryZ(1))
    /\ ~ret.out.lowPositive
    /\ ret.out.positives = ret.out.breakPoints[2] - ret.out.breakPoints[1]

\* C20: when the sign of the sampled payoff flips exactly once,
\* probabilityOfProfit returns Phi(z) if the payoff at the lowest sample
\* (0.01) is positive and 1 - Phi(z) otherwise, z from the first sample
\* after the flip; that sample is not the first, so its price is above 0.01
\* and the ratio boundary / S0 whose logarithm is taken is positive.
C20_OneBoundary ==
  (ret.op = "probabilityOfProfit" /\ ret.out.thrown = NoError
     /\ Len(ret.out.breakPoints) = 1) =>
    /\ ret.out.value =
         IF ret.out.lowPositive THEN cumulativeNormalDistribution(BoundaryZ(1))
         ELSE FP - cumulativeNormalDistribution(BoundaryZ(1))
    /\ ret.out.lowPositive =>
         ret.out.positives = ret.out.breakPoints[1]
    /\ ~ret.out.lowPositive =>
         ret.out.positives = NumSamples - ret.out.breakPoints[1]
    /\ ret.out.breakPoints[1] >= 1
    /\ NumGt(S_vals(ret.market.S0, ret.out.breakPoints[1]), Whole(S_min))
    /\ PriceRatio(S_vals(ret.market.S0, ret.out.breakPoints[1]), GridDen,
                  ret.market.S0) > 0

C20_Witness ==
  /\ ret.op = "probabilityOfProfit"
  /\ ret.out.thrown = NoError
  /\ Len(ret.out.breakPoints) = 1
  /\ ret.out.lowPositive
  /\ Len(ret.strategy) = 1
  /\ ret.out.value = cumulativeNormalDistribution(BoundaryZ(1))
  /\ 0 < ret.out.value /\ ret.out.value < FP

\* C21: probabilityOfProfit integrates numerically if and only if the sign
\* of the sampled payoff flips between consecutive samples three or more
\* times; with one flip and with two it takes the closed form of that many
\* boundaries, and with none it returns 0.0 or 1.0.
C21_BranchByFlips ==
  (ret.op = "probabilityOfProfit" /\ ret.out.thrown = NoError) =>
    /\ (ret.out.branch = "integration") <=> (ret.out.flips >= 3)
    /\ (ret.out.branch = "one") <=> (ret.out.flips = 1)
    /\ (ret.out.branch = "two") <=> (ret.out.flips = 2)
    /\ (ret.out.branch \in {"none", "all"}) <=> (ret.out.flips = 0)
    /\ ret.out.flips = 0 => ret.out.value \in {0, FP}
    /\ ret.out.branch \in {"none", "all", "one", "two", "integration"}

C21_Witness ==
  /\ ret.op = "probabilityOfProfit"
  /\ ret.out.thrown = NoError
  /\ ret.out.flips = 3
  /\ ret.out.branch = "integration"
  /\ Len(ret.out.breakPoints) = 3

\* premiums received less premiums paid, in cents
RECURSIVE NetCredit(_)
NetCredit(ps) ==
  IF ps = <<>> THEN 0
  ELSE (IF ps[1].action = "sell" THEN ps[1].premium ELSE -ps[1].premium)
         * ps[1].quantity + NetCredit(Tail(ps))

\* the strategy of ret is the condor 110/120/90/80 called at S0 = 100
CondorCall ==
  /\ ret.op = "probabilityOfProfit"
  /\ ret.market.S0 = CondorS0
  /\ ret.out.thrown = NoError
  /\ Len(ret.strategy) = 4
  /\ [k \in 1..4 |-> <<ret.strategy[k].optionType, ret.strategy[k].action,
                        ret.strategy[k].strike>>]
       = << <<"call", "sell", 11000>>, <<"call", "buy", 12000>>,
            <<"put", "sell", 9000>>, <<"put", "buy", 8000>> >>

\* C22 as stated: for any premiums of net credit > 0 the sampled payoff of
\* the condor changes sign exactly twice, the closed form of two boundaries
\* is taken and the result exceeds 0.5.
C22_CondorAnyCredit ==
  (CondorCall /\ NetCredit(ret.strategy) > 0) =>
    /\ ret.out.flips = 2
    /\ ret.out.branch = "two"
    /\ 2 * ret.out.value > FP

\* the distance between the strikes of each pair of the condor, in cents
CondorWidth == 12000 - 11000

\* the markets of the generator and of three months at sigma = 0.2
CalmMarket(m) ==
  \/ m.T = Market_T /\ m.r = Market_r /\ m.sigma = Market_sigma
  \/ m.T = Ratio(90, 365) /\ m.r = 10000 /\ m.sigma = 200000

\* C22: for premiums of net credit > 0 and at most 10, the distance
\* between the strikes of each pair, the sampled payoff of the condor
\* changes sign exactly twice and the closed form of two boundaries is
\* taken, never the integration; the result exceeds 0.5 at T = 21/365,
\* r = 0.01, sigma = 0.122 and at T = 90/365, r = 0.01, sigma = 0.2.
C22_CondorTwoBoundaries ==
  (CondorCall /\ NetCredit(ret.strategy) > 0
     /\ NetCredit(ret.strategy) <= CondorWidth) =>
    /\ ret.out.flips = 2
    /\ ret.out.branch = "two"
    /\ CalmMarket(ret.market) => 2 * ret.out.value > FP

C22_Witness ==
  /\ CondorCall
  /\ NetCredit(ret.strategy) = 100
  /\ ret.market.sigma = 200000
  /\ ret.out.branch = "two"
  /\ 2 * ret.out.value > FP
  /\ ret.out.value < FP

\* C24: riskRewardRatio of a strategy whose legs have numeric strikes and
\* premiums is never negative and never NaN in any copy: it is a real
\* number >= 0 or +Infinity, also when the sampled payoff is negative
\* everywhere (maxProfit < 0).
C24_RatioNonNegative ==
  (ret.op = "riskRewardRatio" /\ ret.out.thrown = NoError) =>
    /\ ret.out.value.kind \in {"finite", "Infinity"}
    /\ ~ret.out.value.neg


(***************************************************************************)
(* Properties of the Combination Generator                                  *)
(***************************************************************************)
\* the four price cells of the tuple c: call at i and j + i, put at k and l + k
PriceCells(c) ==
  << At(internalMatrix, CallRow, c[1]), At(internalMatrix, CallRow, c[2] + c[1]),
     At(internalMatrix, PutRow, c[3]), At(internalMatrix, PutRow, c[4] + c[3]) >>

AllPricesParse(c) == \A n \in 1..4 : ~parseFloat(PriceCells(c)[n]).nan

\* the tuples of the four loops for the table at hand
LoopTuples ==
  LET rows == START..(START + maxRowsOf(internalMatrix) - 1)
  IN { c \in rows \X rows \X rows \X rows :
         /\ c[2] + c[1] < START + maxRowsOf(internalMatrix)
         /\ c[4] + c[3] < START + maxRowsOf(internalMatrix) }

\* C7: a candidate tuple yields exactly one result record if and only if
\* its four price cells parse to a number; a candidate with a not-a-number
\* price cell is skipped and the enumeration goes on, so that at the end
\* every tuple of the loops was tried once and the records pushed are those
\* of the well-formed tuples, in order.
C7_OneRecordPerWellFormedCandidate ==
  (phase \in {"enumerating", "done"}) =>
    LET kept == SelectSeq(tried, AllPricesParse)
    IN /\ Len(pushed) = Len(kept)
       /\ Len(riskRewardRatios) = Len(kept)
       /\ \A n \in 1..Len(kept) :
            pushed[n].indices =
              <<kept[n][1], kept[n][2] + kept[n][1], kept[n][3], kept[n][4] + kept[n][3]>>
       /\ (phase = "enumerating") => (riskRewardRatios = pushed)
       /\ \A a, b \in 1..Len(tried) : a # b => tried[a] # tried[b]
       /\ {tried[n] : n \in 1..Len(tried)} \subseteq LoopTuples
       /\ (phase = "enumerating") => (cursor \in LoopTuples /\ Len(tried) < Cardinality(LoopTuples))
       /\ (phase = "done") => (Len(tried) = Cardinality(LoopTuples) /\ output # NoOutput)

\* a run ended in which a tuple inside the table was skipped for a cell
\* that is text, and a later tuple produced a record
C7_Witness ==
  /\ phase = "done"
  /\ \E a, b \in 1..Len(tried) :
       /\ a < b
       /\ \E n \in 1..4 : /\ PriceCells(tried[a])[n].t = "string"
                          /\ parseFloat(PriceCells(tried[a])[n]).nan
       /\ AllPricesParse(tried[b])
       /\ \E n \in 1..Len(riskRewardRatios) :
            riskRewardRatios[n].indices[1] = tried[b][1]

\* C8: the number of candidates skipped for a non-numeric price cell can be
\* recovered from the output: two runs with the same output skipped the
\* same number of tuples.
C8_SkipCountObservable ==
  (phase = "done" /\ previous # NoRun /\ previous.output = output) =>
    previous.skipped = Len(tried) - Len(riskRewardRatios)

\* the row of the transposed table that holds the price of leg g
PriceRowOf(g) == IF g <= 2 THEN CallRow ELSE PutRow

\* C9: each of the four legs of an emitted candidate takes its strike and
\* its premium from the same index of the table, and has quantity 1.
C9_LegFromOneColumn ==
  \A n \in 1..Len(riskRewardRatios) :
    \A g \in 1..4 :
      LET e == riskRewardRatios[n]
      IN /\ e.positions[g].quantity = 1
         /\ e.positions[g].strike = parseFloat(At(internalMatrix, StrikeRow, e.indices[g]))
         /\ Finite(e.positions[g].premium) =
              parseFloat(At(internalMatrix, PriceRowOf(g), e.indices[g]))

\* C10: every index used to read a price or strike cell is less than the
\* number of columns of the table.
C10_ReadsInsideTable ==
  \A rc \in readCells : rc[2] < Len(internalMatrix[1])

(***************************************************************************)
(* Properties of the ranking and the export                                 *)
(***************************************************************************)
\* the records in ranked order: the sorted array of script.js, the
\* strategies of the result of analyzeMatrix
Ranked == IF impl = "script" THEN riskRewardRatios ELSE output.strategies

\* the place of the record e in the order of enumeration
PushIndex(e) == CHOOSE n \in 1..Len(pushed) : pushed[n].indices = e.indices

\* x and y are equal ratios: the same finite number or the same infinity
EqualRatio(x, y) ==
  x.kind # "NaN" /\ y.kind # "NaN" /\ SignOfDifference(x, y) = 0

\* C11: the ranked output is in non-increasing order of risk/reward ratio
\* (no record is followed by one with a greater ratio), and records with
\* equal ratios, two +Infinity included, keep their order of enumeration.
C11_RankedDescendingStable ==
  (phase = "done") =>
    \A a, b \in 1..Len(Ranked) :
      a < b =>
        /\ SignOfDifference(Ranked[b].riskReward, Ranked[a].riskReward) <= 0
        /\ EqualRatio(Ranked[a].riskReward, Ranked[b].riskReward)
             => PushIndex(Ranked[a]) < PushIndex(Ranked[b])

\* C12: ranking leaves its input as it was: once the run is over the array
\* of records still holds the records in the order of enumeration.
C12_RankingLeavesInput ==
  (phase = "done") => (riskRewardRatios = pushed)

\* the lines of the exported file, once there is one
Exported == IF impl = "script" THEN output.csvContent ELSE csvContent

HasExport == phase = "done" /\ (impl = "script" \/ csvContent # NoOutput)

\* the header line and the row of a record in the export of the copy
HeaderLine ==
  IF impl = "script" THEN join([n \in 1..Len(CsvHeader) |-> <<CsvHeader[n]>>], ",")
  ELSE join([n \in 1..Len(ExportHeader) |-> <<ExportHeader[n]>>], ",")

RowOf(e) == IF impl = "script" THEN csvRow(internalMatrix, e) ELSE exportRow(e)

\* C13: the export is one header line followed by one row per record that
\* was pushed, in ranked order: as many rows as records, row n is the row of
\* the n-th ranked record, and every pushed record is the record of exactly
\* one row.
C13_ExportOneRowPerRecord ==
  HasExport =>
    /\ Exported[1] = HeaderLine
    /\ Len(Exported) = 1 + Len(pushed)
    /\ \A n \in 1..(Len(Exported) - 1) :
         n <= Len(Ranked) /\ Exported[n + 1] = RowOf(Ranked[n])
    /\ \A i \in 1..Len(pushed) :
         Cardinality({n \in 1..Len(Ranked) : Ranked[n].indices = pushed[i].indices}) = 1

\* line.split(sep): the fields between the separators
RECURSIVE split(_, _)
split(line, sep) ==
  IF \A k \in 1..Len(line) : line[k] # sep THEN <<line>>
  ELSE LET at == CHOOSE k \in 1..Len(line) :
                   line[k] = sep /\ \A h \in 1..(k - 1) : line[h] # sep
       IN <<SubSeq(line, 1, at - 1)>> \o split(SubSeq(line, at + 1, Len(line)), sep)

\* the number that toFixed(4) rounds to, in units of 1/10000
RoundedTo4(f) ==
  IF f.t = "NaN" THEN NaN
  ELSE IF f.t = "Infinity" THEN Infinite(f.neg)
  ELSE Finite(IF f.neg THEN -f.units ELSE f.units)

\* the columns of ratio, probability and first strike in the export
RatioColumn == IF impl = "script" THEN 1 ELSE 2

StrikeColumn == IF impl = "script" THEN 3 ELSE 7

\* C14: round trip: the row exported for a record, split on the comma and
\* parsed field by field, gives back the four leg strikes of the record and
\* its ratio and probability rounded to 4 decimals.
C14_ExportRoundTrip ==
  HasExport =>
    \A n \in 1..Min2(Len(Ranked), Len(Exported) - 1) :
      LET fields == split(Exported[n + 1], ",")
      IN /\ Len(fields) = Len(split(HeaderLine, ","))
         /\ \A g \in 1..4 :
              parseFloatString(fields[StrikeColumn + g - 1])
                = Ranked[n].positions[g].strike
         /\ parseFloatTo(fields[RatioColumn], 4)
              = RoundedTo4(JsToFixed4(Ranked[n].riskReward))
         /\ parseFloatTo(fields[RatioColumn + 1], 4)
              = RoundedTo4(toFixed4(Ranked[n].prob))

\* C18 as stated: the enumeration tries more than 1000 times fewer tuples
\* than the (maxRows - 1)^4 of independent indices at maxRows = 30, where
\* the number it tries is the number of loop bodies a run executes.
C18_ThousandTimesFewer ==
  (phase = "done") =>
    /\ Len(tried) = tuplesTried(maxRowsOf(internalMatrix))
    /\ 1000 * tuplesTried(RowCap) < totalIterations(RowCap)

\* maxRows * (maxRows - 1) / 2, squared
PairsSquared(maxRows) ==
  ((maxRows * (maxRows - 1)) \div 2) * ((maxRows * (maxRows - 1)) \div 2)

\* C18: the nested-offset enumeration tries (maxRows (maxRows - 1) / 2)^2
\* tuples, which grows as maxRows^4 and not as maxRows^2: a run tries that
\* many, and at maxRows = 30 it tries fewer tuples than the (maxRows - 1)^4
\* of independent indices, but less than 4 times fewer.
C18_QuarticGrowth ==
  (phase = "done") =>
    /\ Len(tried) = PairsSquared(maxRowsOf(internalMatrix))
    /\ tuplesTried(RowCap) = PairsSquared(RowCap)
    /\ tuplesTried(RowCap) < totalIterations(RowCap)
    /\ 4 * tuplesTried(RowCap) > totalIterations(RowCap)

C18_Witness ==
  /\ phase = "done"
  /\ maxRowsOf(internalMatrix) = 5
  /\ Len(tried) = 100
  /\ Len(tried) > maxRowsOf(internalMatrix) * maxRowsOf(internalMatrix)

\* the indices (a, b, c, d) = (i, j + i, k, l + k) of the tuple tried last
LastIndices ==
  LET c == tried[Len(tried)]
  IN <<c[1], c[2] + c[1], c[3], c[4] + c[3]>>

\* C23: every tuple of indices (a, b, c, d) tried satisfies
\* START <= a < b < START + maxRows and START <= c < d < START + maxRows
\* with START = 1: the index of the long leg of a pair is above that of its
\* short leg, and no index reaches START + maxRows.
C23_IndicesOrdered ==
  (tried # <<>>) =>
    /\ START = 1
    /\ START <= LastIndices[1]
    /\ LastIndices[1] < LastIndices[2]
    /\ LastIndices[2] < START + maxRowsOf(internalMatrix)
    /\ START <= LastIndices[3]
    /\ LastIndices[3] < LastIndices[4]
    /\ LastIndices[4] < START + maxRowsOf(internalMatrix)

C23_Witness ==
  /\ tried # <<>>
  /\ maxRowsOf(internalMatrix) = 4
  /\ LastIndices = <<START, START + 3, START + 2, START + 3>>

\* the column of the first leg price in the export
PriceColumn == IF impl = "script" THEN 7 ELSE 11

\* C25: in every exported row the price shown for a leg is the premium that
\* leg carried when the metrics of the row were computed, and the strike
\* shown for a leg is the strike of that leg.
C25_ExportShowsLegs ==
  HasExport =>
    \A n \in 1..Min2(Len(Ranked), Len(Exported) - 1) :
      LET fields == split(Exported[n + 1], ",")
      IN \A g \in 1..4 :
           /\ StrikeColumn + g - 1 <= Len(fields)
           /\ PriceColumn + g - 1 <= Len(fields)
           /\ parseFloatString(fields[StrikeColumn + g - 1])
                = Ranked[n].positions[g].strike
           /\ parseFloatString(fields[PriceColumn + g - 1])
                = Finite(Ranked[n].positions[g].premium)

\* C26: what analyzeMatrix returns is consistent: strategies and
\* analysisResults have the same length, at most 100; the n-th analysis
\* names the n-th strategy; the ids of the strategies are distinct; and
\* totalProcessed is the number of candidates that produced a record, which
\* is at least the number of strategies returned.
C26_ResultConsistent ==
  (impl = "ts" /\ phase = "done") =>
    /\ Len(output.strategies) = Len(output.analysisResults)
    /\ Len(output.strategies) <= 100
    /\ \A n \in 1..Len(output.strategies) :
         output.analysisResults[n].strategyId = output.strategies[n].id
    /\ \A n, h \in 1..Len(output.strategies) :
         output.strategies[n].id = output.strategies[h].id => n = h
    /\ output.totalProcessed = Len(pushed)
    /\ output.totalProcessed >= Len(output.strategies)

C26_Witness ==
  /\ impl = "ts"
  /\ phase = "done"
  /\ Len(pushed) > 100
  /\ Len(output.strategies) = 100
  /\ output.strategies[1].id # 0

(***************************************************************************)
(* Properties of the auth store                                             *)
(***************************************************************************)
\* C27: in every state the store reaches, under every interleaving of
\* overlapping signIn, signUp, signOut, updateProfile and initialize,
\* isAuthenticated is true exactly when user is not null.
C27_AuthenticatedIffUser ==
  store.isAuthenticated <=> (store.user # NoUser)

InFlight(c) == c \in 1..Len(calls) /\ calls[c].pc # "settled"

Quiescent == \A c \in 1..Len(calls) : ~InFlight(c)

\* C28: every signIn and signUp is followed by a state in which no call is
\* in flight and isLoading is false, whatever the backend answers, the
\* answer with neither an error nor a user included.
C28_LoadingEnds ==
  (\E c \in 1..MaxCalls : InFlight(c) /\ calls[c].op \in {"signIn", "signUp"})
    ~> (Quiescent /\ ~store.isLoading)

(***************************************************************************)
(* Properties of the upload card                                            *)
(***************************************************************************)
Over(u) == uploads[u].pc \in {"failed", "done"}

\* C29: the interval of an upload that is over, failed or completed, is no
\* longer registered, so that no timer of a finished upload changes
\* progress again; and once every upload is over progress is 0 and
\* isProcessing is false.
C29_TimerStopsWithUpload ==
  /\ \A u \in 1..Len(uploads) : Over(u) => ~uploads[u].interval
  /\ (\A u \in 1..Len(uploads) : Over(u)) => (progress = 0 /\ ~isProcessing)

\* C30: at most one file is being processed at a time, and onUploadComplete
\* is called once for a file whose upload is done and never for another.
C30_OneUploadAtATime ==
  /\ Cardinality({u \in 1..Len(uploads) : ~Over(u)}) <= 1
  /\ \A u \in 1..Len(uploads) :
       Cardinality({n \in 1..Len(completed) : completed[n] = u})
         = IF uploads[u].pc = "done" THEN 1 ELSE 0

====
